---- MODULE Spec2Model ----
(***************************************************************************)
(* Integration-resilience toolkit of app/integration.                      *)
(*                                                                         *)
(* Part 1: the circuit breaker of cross_cutting/circuit_breaker.py and its *)
(* module-level registry.  Breaker objects live in a heap (a sequence, the *)
(* index is the object identity); the registry maps names to identities.   *)
(* Callers are cooperative tasks that enter a breaker, run the protected   *)
(* function and leave, recording its outcome.  Wall-clock time is the      *)
(* integer clock `now`, advanced by Tick.                                  *)
(***************************************************************************)
EXTENDS Integers, Sequences, FiniteSets, TLC

VARIABLES
    breakers,   \* heap of CircuitBreaker objects: Seq of records, index = identity
    registry,   \* _circuit_breakers: function name -> identity (a dict)
    calls,      \* per caller: where it is in `with cb:` / `async with cb:`
    now,        \* time.time()
    admin,      \* number of reset / force_open / force_close calls made so far
    attempts,   \* number of admission attempts made so far, on all breakers
    hist,       \* history: per breaker, what has happened to it (see HistAfter)
    last        \* history: the operation that produced this state, its outcome and the state before it

\* Part 2: the saga orchestrator of events/saga.py
VARIABLES
    orchestrators,  \* heap of SagaOrchestrator objects: steps, _executions, _event_handlers
    sagaExecutions, \* heap of SagaExecution objects, index = identity
    sagaTasks,      \* per task: the frame of its execute() call (locals and position)
    sagaLog         \* history: per task, what it has invoked and broadcast, in order

\* Part 3: the rate limiter of applications/gateway.py
VARIABLES
    tokenBuckets,   \* heap of TokenBucket objects, index = identity
    gwLast,         \* history: the last gateway operation, its result and the state before it
    gateway,        \* the APIGateway object: routes, rate_limiter, metrics, request_log
    gwChecks,       \* history: the RateLimiter.check calls made, in order
    gwHandled,      \* history: the handle_request calls made, in order
    gwRegistered    \* history: the register_route calls made, in order

cbVars == <<breakers, registry, calls, now, admin, attempts, hist, last>>
sagaVars == <<orchestrators, sagaExecutions, sagaTasks, sagaLog>>
gatewayVars == <<tokenBuckets, gwLast, gateway, gwChecks, gwHandled, gwRegistered>>

vars == <<cbVars, sagaVars, gatewayVars>>

----------------------------------------------------------------------------
(* Bounds of the model *)

\* success_threshold and half_open_max_calls are drawn from 1..MaxThreshold
MaxThreshold == 2
\* failure_threshold is drawn from 1..MaxFailureThreshold
MaxFailureThreshold == 3
\* reset_timeout is drawn from 1..MaxTimeout
MaxTimeout == 2
\* the clock runs from 1 to MaxTime
MaxTime == 3
\* at most MaxCalls admissions are attempted in all
MaxCalls == 3
\* reset / force_open / force_close are called at most MaxAdmin times in all
MaxAdmin == 1
\* number of concurrent callers
NumCallers == 3
\* number of breaker objects that can be constructed in the registry scenario
MaxBreakers == 2
\* admissions attempted in the registry scenario
RegistryCalls == 2

\* default of success_threshold in CircuitBreaker.__init__
DefaultSuccessThreshold == 2

Callers == 1..NumCallers
Names == {"svc_a", "svc_b"}

----------------------------------------------------------------------------
(* Values *)

CLOSED == "CLOSED"
OPEN == "OPEN"
HALF_OPEN == "HALF_OPEN"

\* None for the Optional[float] timestamps; time.time() is positive
None == -1
Truthy(t) == t # None /\ t # 0

Max(a, b) == IF a >= b THEN a ELSE b

CircuitBreakerConfig(ft, st, rt, hom) ==
    [failure_threshold |-> ft, success_threshold |-> st,
     reset_timeout |-> rt, half_open_max_calls |-> hom]

CircuitBreakerStats ==
    [total_calls |-> 0, successful_calls |-> 0, failed_calls |-> 0,
     rejected_calls |-> 0, state_changes |-> <<>>,
     last_failure_time |-> None, last_success_time |-> None]

\* a constructor that validates nothing
InitRaises_Never(st, hom) == FALSE

\* a constructor that compares the two thresholds the wrong way round
InitRaises_Reversed(st, hom) == st < hom

\* CircuitBreaker.__init__ raises ValueError on this condition
InitRaises(st, hom) == hom < st

\* the object CircuitBreaker.__init__ builds when it does not raise
NewBreaker(name, ft, st, rt, hom, cb) ==
    [name |-> name,
     config |-> CircuitBreakerConfig(ft, st, rt, hom),
     state |-> CLOSED,
     failure_count |-> 0,
     success_count |-> 0,
     last_failure_time |-> None,
     half_open_calls |-> 0,
     stats |-> CircuitBreakerStats,
     on_state_change |-> cb,
     callback_calls |-> <<>>,
     lock |-> 0,
     event_history |-> <<>>]

----------------------------------------------------------------------------
(* Methods of CircuitBreaker as functions of the object b, the time t and,  *)
(* where a transition may call on_state_change, whether that callback       *)
(* raises (r).  The "timestamp" strings of the logged events                *)
(* (datetime.now().isoformat()) are not kept: nothing reads them.          *)

\* _transition_to(new_state) undone when the callback raises
TransitionTo_RollsBack(b, new_state, t, r) ==
    LET b1 == [b EXCEPT !.state = new_state]
        b2 == IF new_state = HALF_OPEN
                THEN [b1 EXCEPT !.half_open_calls = 0, !.success_count = 0]
                ELSE IF new_state = CLOSED
                       THEN [b1 EXCEPT !.failure_count = 0]
                       ELSE b1
        transition == [from |-> b.state, to |-> new_state,
                       failure_count |-> b2.failure_count,
                       success_count |-> b2.success_count]
        b3 == [b2 EXCEPT !.stats.state_changes = Append(@, transition),
                         !.event_history = Append(@,
                             [type |-> "state_change",
                              from |-> b.state, to |-> new_state,
                              failure_count |-> b2.failure_count,
                              success_count |-> b2.success_count])]
        call == [name |-> b.name, old |-> b.state, new |-> new_state, raised |-> r]
    IN  IF b.on_state_change
          THEN IF r THEN [b EXCEPT !.callback_calls = Append(@, call)]
               ELSE [b3 EXCEPT !.callback_calls = Append(@, call)]
          ELSE b3

\* _transition_to(new_state)
TransitionTo(b, new_state, t, r) ==
    LET b1 == [b EXCEPT !.state = new_state]
        b2 == IF new_state = HALF_OPEN
                THEN [b1 EXCEPT !.half_open_calls = 0, !.success_count = 0]
                ELSE IF new_state = CLOSED
                       THEN [b1 EXCEPT !.failure_count = 0]
                       ELSE b1
        transition == [from |-> b.state, to |-> new_state,
                       failure_count |-> b2.failure_count,
                       success_count |-> b2.success_count]
        b3 == [b2 EXCEPT !.stats.state_changes = Append(@, transition),
                         !.event_history = Append(@,
                             [type |-> "state_change",
                              from |-> b.state, to |-> new_state,
                              failure_count |-> b2.failure_count,
                              success_count |-> b2.success_count])]
    IN  IF b.on_state_change
          THEN [b3 EXCEPT !.callback_calls =
                   Append(@, [name |-> b.name, old |-> b.state,
                              new |-> new_state, raised |-> r])]
          ELSE b3

\* _check_state_transition()
CheckStateTransition(b, t, r) ==
    IF b.state = OPEN /\ Truthy(b.last_failure_time)
         /\ t - b.last_failure_time >= b.config.reset_timeout
      THEN TransitionTo(b, HALF_OPEN, t, r)
      ELSE b

\* _record_success() that closes only once success_count exceeds the threshold
RecordSuccess_Late(b, t, r) ==
    LET b1 == [b EXCEPT !.stats.successful_calls = @ + 1,
                        !.stats.last_success_time = t]
        b2 == IF b1.state = HALF_OPEN
                THEN LET b3 == [b1 EXCEPT !.success_count = @ + 1]
                     IN  IF b3.success_count > b3.config.success_threshold
                           THEN TransitionTo(b3, CLOSED, t, r)
                           ELSE b3
                ELSE IF b1.state = CLOSED
                       THEN [b1 EXCEPT !.failure_count = 0]
                       ELSE b1
    IN  [b2 EXCEPT !.event_history = Append(@,
            [type |-> "call_success", state |-> b2.state])]

\* _record_success() that lets failure_count decay by one in CLOSED
RecordSuccess_Decay(b, t, r) ==
    LET b1 == [b EXCEPT !.stats.successful_calls = @ + 1,
                        !.stats.last_success_time = t]
        b2 == IF b1.state = HALF_OPEN
                THEN LET b3 == [b1 EXCEPT !.success_count = @ + 1]
                     IN  IF b3.success_count >= b3.config.success_threshold
                           THEN TransitionTo(b3, CLOSED, t, r)
                           ELSE b3
                ELSE IF b1.state = CLOSED
                       THEN [b1 EXCEPT !.failure_count = Max(0, @ - 1)]
                       ELSE b1
    IN  [b2 EXCEPT !.event_history = Append(@,
            [type |-> "call_success", state |-> b2.state])]

\* _record_success()
RecordSuccess(b, t, r) ==
    LET b1 == [b EXCEPT !.stats.successful_calls = @ + 1,
                        !.stats.last_success_time = t]
        b2 == IF b1.state = HALF_OPEN
                THEN LET b3 == [b1 EXCEPT !.success_count = @ + 1]
                     IN  IF b3.success_count >= b3.config.success_threshold
                           THEN TransitionTo(b3, CLOSED, t, r)
                           ELSE b3
                ELSE IF b1.state = CLOSED
                       THEN [b1 EXCEPT !.failure_count = 0]
                       ELSE b1
    IN  [b2 EXCEPT !.event_history = Append(@,
            [type |-> "call_success", state |-> b2.state])]

\* _record_failure(error) that opens only once failure_count exceeds the threshold
RecordFailure_Late(b, error, t, r) ==
    LET b1 == [b EXCEPT !.stats.failed_calls = @ + 1,
                        !.last_failure_time = t,
                        !.stats.last_failure_time = t]
        b2 == IF b1.state = HALF_OPEN
                THEN TransitionTo(b1, OPEN, t, r)
                ELSE IF b1.state = CLOSED
                       THEN LET b3 == [b1 EXCEPT !.failure_count = @ + 1]
                            IN  IF b3.failure_count > b3.config.failure_threshold
                                  THEN TransitionTo(b3, OPEN, t, r)
                                  ELSE b3
                       ELSE b1
    IN  [b2 EXCEPT !.event_history = Append(@,
            [type |-> "call_failure", state |-> b2.state, error |-> error])]

\* _record_failure(error) that stamps only stats.last_failure_time
RecordFailure_NoStamp(b, error, t, r) ==
    LET b1 == [b EXCEPT !.stats.failed_calls = @ + 1,
                        !.stats.last_failure_time = t]
        b2 == IF b1.state = HALF_OPEN
                THEN TransitionTo(b1, OPEN, t, r)
                ELSE IF b1.state = CLOSED
                       THEN LET b3 == [b1 EXCEPT !.failure_count = @ + 1]
                            IN  IF b3.failure_count >= b3.config.failure_threshold
                                  THEN TransitionTo(b3, OPEN, t, r)
                                  ELSE b3
                       ELSE b1
    IN  [b2 EXCEPT !.event_history = Append(@,
            [type |-> "call_failure", state |-> b2.state, error |-> error])]

\* _record_failure(error)
RecordFailure(b, error, t, r) ==
    LET b1 == [b EXCEPT !.stats.failed_calls = @ + 1,
                        !.last_failure_time = t,
                        !.stats.last_failure_time = t]
        b2 == IF b1.state = HALF_OPEN
                THEN TransitionTo(b1, OPEN, t, r)
                ELSE IF b1.state = CLOSED
                       THEN LET b3 == [b1 EXCEPT !.failure_count = @ + 1]
                            IN  IF b3.failure_count >= b3.config.failure_threshold
                                  THEN TransitionTo(b3, OPEN, t, r)
                                  ELSE b3
                       ELSE b1
    IN  [b2 EXCEPT !.event_history = Append(@,
            [type |-> "call_failure", state |-> b2.state,
             error |-> error])]

\* _can_execute() that admits one call too many in HALF_OPEN
Admits_OffByOne(b) ==
    IF b.state = CLOSED THEN TRUE
    ELSE IF b.state = OPEN THEN FALSE
    ELSE IF b.state = HALF_OPEN
           THEN b.half_open_calls <= b.config.half_open_max_calls
           ELSE FALSE

\* the decision of _can_execute() once _check_state_transition() has run
Admits(b) ==
    IF b.state = CLOSED THEN TRUE
    ELSE IF b.state = OPEN THEN FALSE
    ELSE IF b.state = HALF_OPEN
           THEN b.half_open_calls < b.config.half_open_max_calls
           ELSE FALSE

\* retry_after that forgets the time already elapsed
RetryAfter_NoElapsed(b, t) ==
    IF Truthy(b.last_failure_time) THEN Max(0, b.config.reset_timeout) ELSE 0

\* retry_after as __aenter__ / __enter__ compute it on rejection
RetryAfter(b, t) ==
    IF Truthy(b.last_failure_time)
      THEN Max(0, b.config.reset_timeout - (t - b.last_failure_time))
      ELSE 0

\* __aenter__ / __enter__ that count a rejection as a failure
EnterBody_CountsFailure(b, t, r, logged) ==
    LET b1 == [b EXCEPT !.stats.total_calls = @ + 1]
        b2 == CheckStateTransition(b1, t, r)
    IN  IF ~Admits(b2)
          THEN [b2 EXCEPT !.stats.rejected_calls = @ + 1,
                          !.stats.failed_calls = @ + 1,
                          !.failure_count = @ + 1]
          ELSE IF b2.state = HALF_OPEN
                 THEN [b2 EXCEPT !.half_open_calls = @ + 1]
                 ELSE b2

\* the body of __aenter__ / __enter__: the object afterwards.
\* logged: __aenter__ appends a call_rejected event, __enter__ does not.
EnterBody(b, t, r, logged) ==
    LET b1 == [b EXCEPT !.stats.total_calls = @ + 1]
        b2 == CheckStateTransition(b1, t, r)
    IN  IF ~Admits(b2)
          THEN LET b3 == [b2 EXCEPT !.stats.rejected_calls = @ + 1]
               IN  IF logged
                     THEN [b3 EXCEPT !.event_history = Append(@,
                              [type |-> "call_rejected", state |-> b3.state,
                               retry_after |-> RetryAfter(b3, t)])]
                     ELSE b3
          ELSE IF b2.state = HALF_OPEN
                 THEN [b2 EXCEPT !.half_open_calls = @ + 1]
                 ELSE b2

\* whether __aenter__ / __enter__ raises CircuitBreakerError
EnterRejects(b, t, r) ==
    ~Admits(CheckStateTransition([b EXCEPT !.stats.total_calls = @ + 1], t, r))

\* the body of __aexit__ / __exit__
ExitBody(b, ok, t, r) ==
    IF ok THEN RecordSuccess(b, t, r) ELSE RecordFailure(b, "error", t, r)

\* reset() that zeroes the counters and leaves the state
ResetBreaker_KeepsState(b) ==
    [b EXCEPT !.failure_count = 0, !.success_count = 0,
              !.last_failure_time = None, !.half_open_calls = 0,
              !.stats = CircuitBreakerStats, !.event_history = <<>>]

\* reset()
ResetBreaker(b) ==
    [b EXCEPT !.state = CLOSED, !.failure_count = 0, !.success_count = 0,
              !.last_failure_time = None, !.half_open_calls = 0,
              !.stats = CircuitBreakerStats, !.event_history = <<>>]

\* force_open() that does not stamp last_failure_time
ForceOpenBreaker_NoStamp(b, t, r) == TransitionTo(b, OPEN, t, r)

\* force_open()
ForceOpenBreaker(b, t, r) ==
    [TransitionTo(b, OPEN, t, r) EXCEPT !.last_failure_time = t]

\* force_close() that sets the state and leaves the counters
ForceCloseBreaker_StateOnly(b, t, r) == [b EXCEPT !.state = CLOSED]

\* force_close()
ForceCloseBreaker(b, t, r) == TransitionTo(b, CLOSED, t, r)

\* get_status()
StatusOf(b, t) ==
    [name |-> b.name, state |-> b.state,
     failure_count |-> b.failure_count, success_count |-> b.success_count,
     config |-> [failure_threshold |-> b.config.failure_threshold,
                 success_threshold |-> b.config.success_threshold,
                 reset_timeout |-> b.config.reset_timeout],
     stats |-> [total_calls |-> b.stats.total_calls,
                successful_calls |-> b.stats.successful_calls,
                failed_calls |-> b.stats.failed_calls,
                rejected_calls |-> b.stats.rejected_calls],
     time_until_half_open |->
         IF b.state = OPEN /\ Truthy(b.last_failure_time)
           THEN Max(0, b.config.reset_timeout - (t - b.last_failure_time))
           ELSE None]

----------------------------------------------------------------------------
(* History bookkeeping *)

Ids == DOMAIN breakers

\* what an operation found: the heap and the registry before it
Snapshot == [breakers |-> breakers, registry |-> registry]

NoError == [raised |-> "none", state |-> "none", retry_after |-> 0]

CircuitBreakerError(b, t) ==
    [raised |-> "CircuitBreakerError", state |-> b.state,
     retry_after |-> RetryAfter(b, t)]

\* the record of operation op on breaker i (0: none) with arguments args:
\* the error it raised, the value it returned, the heap and registry before it
Op(op, i, args, err, out) ==
    [op |-> op, id |-> i, caller |-> 0, args |-> args, error |-> err, out |-> out,
     pre |-> Snapshot]

\* the same for an operation of caller c
CallOp(op, i, c, args, err) == [Op(op, i, args, err, "none") EXCEPT !.caller = c]

\* history of a breaker that no operation has touched
NoHist == [streak |-> 0, opened_at |-> None, opened_from |-> "none", admitted |-> 0]

\* history h of a breaker after an operation of the given kind ("admit",
\* "reject", "observe", "success", "failure", "admin") at time t took the
\* object from b to b2.
\*   streak: failures recorded in a row since the breaker was CLOSED with
\*     failure_count 0, while that count has not passed failure_threshold;
\*     -1 once something else than a failure was recorded or forced.
\*   opened_at, opened_from: when, and from which state, a recorded failure
\*     last moved the breaker to OPEN; cleared by reset and the force calls.
\*   admitted: calls admitted since the breaker last entered HALF_OPEN.
HistAfter(h, b, b2, kind, t) ==
    [streak |->
        IF kind = "failure"
          THEN IF h.streak >= 0 /\ h.streak < b2.config.failure_threshold
                 THEN h.streak + 1 ELSE -1
          ELSE IF b2.state = CLOSED /\ b2.failure_count = 0 THEN 0
          ELSE IF kind \in {"admit", "reject", "observe"} THEN h.streak
          ELSE -1,
     opened_at |->
        IF kind = "admin" THEN None
        ELSE IF b.state # OPEN /\ b2.state = OPEN THEN t
        ELSE h.opened_at,
     opened_from |->
        IF kind = "admin" THEN "none"
        ELSE IF b.state # OPEN /\ b2.state = OPEN THEN b.state
        ELSE h.opened_from,
     admitted |->
        IF b2.state # HALF_OPEN THEN 0
        ELSE (IF b.state = HALF_OPEN THEN h.admitted ELSE 0)
             + (IF kind = "admit" THEN 1 ELSE 0)]

\* no task is inside `async with self._lock`.  Acquiring a free asyncio.Lock
\* does not suspend and the locked bodies hold no await, so the event loop
\* runs nothing else between an acquisition and the release that follows it.
LockFree == \A i \in Ids : breakers[i].lock = 0

\* which callback outcomes to consider for object b
Raises(b) == IF b.on_state_change THEN BOOLEAN ELSE {FALSE}

IdleCall == [pc |-> "idle", id |-> 0, mode |-> "none"]

----------------------------------------------------------------------------
(* Initial states *)

\* no orchestrator has been built and no task runs execute()
NoSaga ==
    /\ orchestrators = <<>>
    /\ sagaExecutions = <<>>
    /\ sagaTasks = <<>>
    /\ sagaLog = <<>>

\* RateLimitConfig defaults
DefaultRequestsPerMinute == 100
DefaultBurstSize == 10

\* RateLimitConfig(requests_per_minute, burst_size)
RateLimitConfig(requests_per_minute, burst_size) ==
    [requests_per_minute |-> requests_per_minute, burst_size |-> burst_size]

\* RateLimitConfig()
DefaultRateLimitConfig == RateLimitConfig(DefaultRequestsPerMinute, DefaultBurstSize)

\* RateLimiter.__init__
RateLimiter == [default_config |-> DefaultRateLimitConfig, buckets |-> <<>>]

\* APIGateway.__init__
APIGateway ==
    [routes |-> <<>>,
     rate_limiter |-> RateLimiter,
     metrics |-> [total_requests |-> 0, requests_by_route |-> <<>>,
                  rate_limited |-> 0, errors |-> 0],
     request_log |-> <<>>]

\* no token bucket has been built; the gateway is as constructed
NoGateway ==
    /\ tokenBuckets = <<>>
    /\ gwLast = [op |-> "init", bucket |-> 0, n |-> 0, at |-> 0, out |-> TRUE,
                 pre |-> [capacity |-> 0, refill_rate |-> 0, tokens |-> 0,
                          last_update |-> 0]]
    /\ gateway = APIGateway
    /\ gwChecks = <<>>
    /\ gwHandled = <<>>
    /\ gwRegistered = <<>>

Thresholds == 1..MaxThreshold
FailureThresholds == 1..MaxFailureThreshold
Timeouts == 1..MaxTimeout

\* one breaker built directly by CircuitBreaker(...), for each valid configuration
Init ==
    /\ \E ft \in FailureThresholds, st \in Thresholds, rt \in Timeouts,
          hom \in Thresholds, cb \in {FALSE} :
          /\ ~InitRaises(st, hom)
          /\ breakers = <<NewBreaker("default", ft, st, rt, hom, cb)>>
    /\ registry = <<>>
    /\ calls = [c \in Callers |-> IdleCall]
    /\ now = 1
    /\ admin = 0
    /\ attempts = 0
    /\ hist = <<NoHist>>
    /\ last = [op |-> "init", id |-> 0, caller |-> 0, args |-> <<>>, error |-> NoError,
               out |-> "none",
               pre |-> [breakers |-> <<>>, registry |-> <<>>]]
    /\ NoSaga
    /\ NoGateway

----------------------------------------------------------------------------
(* Protected calls.  `async with cb:` takes cb._lock around the bodies of   *)
(* __aenter__ and __aexit__; `with cb:` runs __enter__ and __exit__ without *)
(* the lock.  cb.protect(func) wraps func in the same two pairs.            *)

\* __aenter__: `async with self._lock` acquires the lock
AcquireEnter(c, i) ==
    /\ LockFree
    /\ calls[c].pc = "idle"
    /\ attempts < MaxCalls
    /\ attempts' = attempts + 1
    /\ breakers' = [breakers EXCEPT ![i].lock = c]
    /\ calls' = [calls EXCEPT ![c] = [pc |-> "entering", id |-> i, mode |-> "async"]]
    /\ last' = CallOp("acquire_enter", i, c, <<>>, NoError)
    /\ UNCHANGED <<registry, now, admin, hist, sagaVars, gatewayVars>>

\* __aenter__ that keeps the lock when it rejects
AEnter_HoldsOnReject(c) ==
    /\ calls[c].pc = "entering"
    /\ LET i == calls[c].id
           b == breakers[i]
       IN  \E r \in Raises(b) :
             LET b2 == EnterBody(b, now, r, TRUE)
                 rejected == EnterRejects(b, now, r)
             IN  /\ breakers' = [breakers EXCEPT ![i] =
                        IF rejected THEN b2 ELSE [b2 EXCEPT !.lock = 0]]
                 /\ calls' = [calls EXCEPT ![c] =
                        IF rejected THEN IdleCall
                        ELSE [pc |-> "running", id |-> i, mode |-> "async"]]
                 /\ hist' = [hist EXCEPT ![i] =
                        HistAfter(@, b, b2, IF rejected THEN "reject" ELSE "admit", now)]
                 /\ last' = CallOp("__aenter__", i, c, <<>>,
                               IF rejected THEN CircuitBreakerError(b2, now) ELSE NoError)
    /\ UNCHANGED <<registry, now, admin, attempts, sagaVars, gatewayVars>>

\* __aenter__: the body under the lock, then the lock is released
AEnter(c) ==
    /\ calls[c].pc = "entering"
    /\ LET i == calls[c].id
           b == breakers[i]
       IN  \E r \in Raises(b) :
             LET b2 == EnterBody(b, now, r, TRUE)
                 rejected == EnterRejects(b, now, r)
             IN  /\ breakers' = [breakers EXCEPT ![i] = [b2 EXCEPT !.lock = 0]]
                 /\ calls' = [calls EXCEPT ![c] =
                        IF rejected THEN IdleCall
                        ELSE [pc |-> "running", id |-> i, mode |-> "async"]]
                 /\ hist' = [hist EXCEPT ![i] =
                        HistAfter(@, b, b2, IF rejected THEN "reject" ELSE "admit", now)]
                 /\ last' = CallOp("__aenter__", i, c, <<>>,
                               IF rejected THEN CircuitBreakerError(b2, now) ELSE NoError)
    /\ UNCHANGED <<registry, now, admin, attempts, sagaVars, gatewayVars>>

\* __aexit__: `async with self._lock` acquires the lock
AcquireExit(c) ==
    /\ LockFree
    /\ calls[c].pc = "running"
    /\ calls[c].mode = "async"
    /\ breakers' = [breakers EXCEPT ![calls[c].id].lock = c]
    /\ calls' = [calls EXCEPT ![c].pc = "exiting"]
    /\ last' = CallOp("acquire_exit", calls[c].id, c, <<>>, NoError)
    /\ UNCHANGED <<registry, now, admin, hist, attempts, sagaVars, gatewayVars>>

\* __aexit__: the body under the lock; ok is exc_type is None
AExit(c, ok) ==
    /\ calls[c].pc = "exiting"
    /\ LET i == calls[c].id
           b == breakers[i]
       IN  \E r \in Raises(b) :
             LET b2 == ExitBody(b, ok, now, r)
             IN  /\ breakers' = [breakers EXCEPT ![i] = [b2 EXCEPT !.lock = 0]]
                 /\ hist' = [hist EXCEPT ![i] =
                        HistAfter(@, b, b2, IF ok THEN "success" ELSE "failure", now)]
                 /\ last' = CallOp("__aexit__", i, c, <<ok>>, NoError)
    /\ calls' = [calls EXCEPT ![c] = IdleCall]
    /\ UNCHANGED <<registry, now, admin, attempts, sagaVars, gatewayVars>>

\* __enter__
Enter(c, i) ==
    /\ LockFree
    /\ calls[c].pc = "idle"
    /\ attempts < MaxCalls
    /\ attempts' = attempts + 1
    /\ LET b == breakers[i]
       IN  \E r \in Raises(b) :
             LET b2 == EnterBody(b, now, r, FALSE)
                 rejected == EnterRejects(b, now, r)
             IN  /\ breakers' = [breakers EXCEPT ![i] = b2]
                 /\ calls' = [calls EXCEPT ![c] =
                        IF rejected THEN IdleCall
                        ELSE [pc |-> "running", id |-> i, mode |-> "sync"]]
                 /\ hist' = [hist EXCEPT ![i] =
                        HistAfter(@, b, b2, IF rejected THEN "reject" ELSE "admit", now)]
                 /\ last' = CallOp("__enter__", i, c, <<>>,
                               IF rejected THEN CircuitBreakerError(b2, now) ELSE NoError)
    /\ UNCHANGED <<registry, now, admin, sagaVars, gatewayVars>>

\* __exit__; ok is exc_type is None
Exit(c, ok) ==
    /\ LockFree
    /\ calls[c].pc = "running"
    /\ calls[c].mode = "sync"
    /\ LET i == calls[c].id
           b == breakers[i]
       IN  \E r \in Raises(b) :
             LET b2 == ExitBody(b, ok, now, r)
             IN  /\ breakers' = [breakers EXCEPT ![i] = b2]
                 /\ hist' = [hist EXCEPT ![i] =
                        HistAfter(@, b, b2, IF ok THEN "success" ELSE "failure", now)]
                 /\ last' = CallOp("__exit__", i, c, <<ok>>, NoError)
    /\ calls' = [calls EXCEPT ![c] = IdleCall]
    /\ UNCHANGED <<registry, now, admin, attempts, sagaVars, gatewayVars>>

----------------------------------------------------------------------------
(* Reads and administrative overrides *)

\* the `state` property
ReadState(i) ==
    LockFree /\ \E r \in Raises(breakers[i]) :
      LET b2 == CheckStateTransition(breakers[i], now, r)
      IN  /\ breakers' = [breakers EXCEPT ![i] = b2]
          /\ hist' = [hist EXCEPT ![i] = HistAfter(@, breakers[i], b2, "observe", now)]
          /\ last' = Op("state", i, <<>>, NoError, b2.state)
          /\ UNCHANGED <<registry, calls, now, admin, attempts, sagaVars, gatewayVars>>

\* get_status()
GetStatus(i) ==
    LockFree /\ \E r \in Raises(breakers[i]) :
      LET b2 == CheckStateTransition(breakers[i], now, r)
      IN  /\ breakers' = [breakers EXCEPT ![i] = b2]
          /\ hist' = [hist EXCEPT ![i] = HistAfter(@, breakers[i], b2, "observe", now)]
          /\ last' = Op("get_status", i, <<>>, NoError, StatusOf(b2, now))
          /\ UNCHANGED <<registry, calls, now, admin, attempts, sagaVars, gatewayVars>>

\* reset()
Reset(i) ==
    /\ LockFree
    /\ admin < MaxAdmin
    /\ admin' = admin + 1
    /\ LET b2 == ResetBreaker(breakers[i])
       IN  /\ breakers' = [breakers EXCEPT ![i] = b2]
           /\ hist' = [hist EXCEPT ![i] = HistAfter(@, breakers[i], b2, "admin", now)]
    /\ last' = Op("reset", i, <<>>, NoError, "none")
    /\ UNCHANGED <<registry, calls, now, attempts, sagaVars, gatewayVars>>

\* force_open()
ForceOpen(i) ==
    /\ LockFree
    /\ admin < MaxAdmin
    /\ admin' = admin + 1
    /\ \E r \in Raises(breakers[i]) :
         LET b2 == ForceOpenBreaker(breakers[i], now, r)
         IN  /\ breakers' = [breakers EXCEPT ![i] = b2]
             /\ hist' = [hist EXCEPT ![i] = HistAfter(@, breakers[i], b2, "admin", now)]
    /\ last' = Op("force_open", i, <<>>, NoError, "none")
    /\ UNCHANGED <<registry, calls, now, attempts, sagaVars, gatewayVars>>

\* force_close()
ForceClose(i) ==
    /\ LockFree
    /\ admin < MaxAdmin
    /\ admin' = admin + 1
    /\ \E r \in Raises(breakers[i]) :
         LET b2 == ForceCloseBreaker(breakers[i], now, r)
         IN  /\ breakers' = [breakers EXCEPT ![i] = b2]
             /\ hist' = [hist EXCEPT ![i] = HistAfter(@, breakers[i], b2, "admin", now)]
    /\ last' = Op("force_close", i, <<>>, NoError, "none")
    /\ UNCHANGED <<registry, calls, now, attempts, sagaVars, gatewayVars>>

\* time passes
Tick ==
    /\ LockFree
    /\ now < MaxTime
    /\ now' = now + 1
    /\ last' = Op("tick", 0, <<>>, NoError, "none")
    /\ UNCHANGED <<breakers, registry, calls, admin, hist, attempts, sagaVars, gatewayVars>>

----------------------------------------------------------------------------
(* One breaker used by concurrent callers *)

Next ==
    \/ \E c \in Callers, i \in Ids : AcquireEnter(c, i)
    \/ \E c \in Callers : AEnter(c)
    \/ \E c \in Callers : AcquireExit(c)
    \/ \E c \in Callers, ok \in BOOLEAN : AExit(c, ok)
    \/ \E c \in Callers, i \in Ids : Enter(c, i)
    \/ \E c \in Callers, ok \in BOOLEAN : Exit(c, ok)
    \/ \E i \in Ids : ReadState(i)
    \/ \E i \in Ids : GetStatus(i)
    \/ \E i \in Ids : Reset(i)
    \/ \E i \in Ids : ForceOpen(i)
    \/ \E i \in Ids : ForceClose(i)
    \/ Tick

Spec == Init /\ [][Next]_vars

----------------------------------------------------------------------------
(* Construction and the module-level registry _circuit_breakers *)

ValueError == [raised |-> "ValueError", state |-> "none", retry_after |-> 0]

\* CircuitBreaker(name=..., ...) called directly
Construct(name, ft, st, rt, hom) ==
    /\ LockFree
    /\ Len(breakers) < MaxBreakers
    /\ IF InitRaises(st, hom)
         THEN /\ UNCHANGED <<breakers, hist>>
              /\ last' = Op("CircuitBreaker", 0, <<name, ft, st, rt, hom>>, ValueError, 0)
         ELSE /\ breakers' = Append(breakers, NewBreaker(name, ft, st, rt, hom, FALSE))
              /\ hist' = Append(hist, NoHist)
              /\ last' = Op("CircuitBreaker", 0, <<name, ft, st, rt, hom>>, NoError,
                            Len(breakers) + 1)
    /\ UNCHANGED <<registry, calls, now, admin, attempts, sagaVars, gatewayVars>>

\* a lookup that never finds the name
Missing_Always(name) == TRUE

\* `name not in _circuit_breakers`
Missing(name) == name \notin DOMAIN registry

\* _circuit_breakers[name] = <object i>
SetItem(d, name, i) == [n \in DOMAIN d \cup {name} |-> IF n = name THEN i ELSE d[n]]

\* get_circuit_breaker(name, failure_threshold, reset_timeout,
\*                     success_threshold=..., half_open_max_calls=...)
GetCircuitBreaker(name, ft, st, rt, hom) ==
    /\ LockFree
    /\ IF Missing(name)
         THEN /\ Len(breakers) < MaxBreakers
              /\ IF InitRaises(st, hom)
                   THEN /\ UNCHANGED <<breakers, registry, hist>>
                        /\ last' = Op("get_circuit_breaker", 0,
                                      <<name, ft, st, rt, hom>>, ValueError, 0)
                   ELSE /\ breakers' = Append(breakers,
                                              NewBreaker(name, ft, st, rt, hom, FALSE))
                        /\ hist' = Append(hist, NoHist)
                        /\ registry' = SetItem(registry, name, Len(breakers) + 1)
                        /\ last' = Op("get_circuit_breaker", 0,
                                      <<name, ft, st, rt, hom>>, NoError,
                                      Len(breakers) + 1)
         ELSE /\ UNCHANGED <<breakers, registry, hist>>
              /\ last' = Op("get_circuit_breaker", 0, <<name, ft, st, rt, hom>>,
                            NoError, registry[name])
    /\ UNCHANGED <<calls, now, admin, attempts, sagaVars, gatewayVars>>

\* the objects the registry holds
Registered == {registry[n] : n \in DOMAIN registry}

\* get_all_circuit_breakers(): get_status() of every registered breaker
GetAllCircuitBreakers ==
    /\ LockFree
    /\ breakers' = [i \in Ids |->
           IF i \in Registered
             THEN CheckStateTransition(breakers[i], now, FALSE)
             ELSE breakers[i]]
    /\ hist' = [i \in Ids |->
           IF i \in Registered
             THEN HistAfter(hist[i], breakers[i], breakers'[i], "observe", now)
             ELSE hist[i]]
    /\ last' = Op("get_all_circuit_breakers", 0, <<>>, NoError,
                  [n \in DOMAIN registry |-> StatusOf(breakers'[registry[n]], now)])
    /\ UNCHANGED <<registry, calls, now, admin, attempts, sagaVars, gatewayVars>>

\* reset_all_circuit_breakers()
ResetAllCircuitBreakers ==
    /\ LockFree
    /\ admin < MaxAdmin
    /\ admin' = admin + 1
    /\ breakers' = [i \in Ids |->
           IF i \in Registered THEN ResetBreaker(breakers[i]) ELSE breakers[i]]
    /\ hist' = [i \in Ids |->
           IF i \in Registered
             THEN HistAfter(hist[i], breakers[i], breakers'[i], "admin", now)
             ELSE hist[i]]
    /\ last' = Op("reset_all_circuit_breakers", 0, <<>>, NoError, "none")
    /\ UNCHANGED <<registry, calls, now, attempts, sagaVars, gatewayVars>>

\* no breaker yet: the module has just been imported
NoCircuitBreaker ==
    /\ breakers = <<>>
    /\ registry = <<>>
    /\ calls = [c \in Callers |-> IdleCall]
    /\ now = 1
    /\ admin = 0
    /\ attempts = 0
    /\ hist = <<>>
    /\ last = [op |-> "init", id |-> 0, caller |-> 0, args |-> <<>>, error |-> NoError,
               out |-> "none",
               pre |-> [breakers |-> <<>>, registry |-> <<>>]]

InitRegistry ==
    /\ NoCircuitBreaker
    /\ NoSaga
    /\ NoGateway

\* breakers built directly and through the registry, used by one sequential
\* client through `with cb:`.  success_threshold is left at its default and
\* reset_timeout is 1.
NextRegistry ==
    \/ \E ft \in Thresholds, hom \in Thresholds :
          Construct("default", ft, DefaultSuccessThreshold, 1, hom)
    \/ \E n \in Names, ft \in Thresholds, hom \in Thresholds :
          GetCircuitBreaker(n, ft, DefaultSuccessThreshold, 1, hom)
    \/ GetAllCircuitBreakers
    \/ ResetAllCircuitBreakers
    \/ \E i \in Ids : attempts < RegistryCalls /\ Enter(1, i)
    \/ \E ok \in BOOLEAN : Exit(1, ok)
    \/ Tick

SpecRegistry == InitRegistry /\ [][NextRegistry]_vars

\* the registry scenario with reset() also called on single breakers
NextReset ==
    \/ NextRegistry
    \/ \E i \in Ids : Reset(i)

SpecReset == InitRegistry /\ [][NextReset]_vars

----------------------------------------------------------------------------
(* Properties.  Each is read in the state an operation has just produced:   *)
(* `last` names the operation, Old is the object it found, Cur the object   *)
(* it left.                                                                 *)

Cur == breakers[last.id]
Old == last.pre.breakers[last.id]
Cfg == breakers[last.id].config

Admission == last.op \in {"__aenter__", "__enter__"}
Rejected == Admission /\ last.error.raised = "CircuitBreakerError"
Admitted == Admission /\ last.error.raised = "none"
RecordedFailure == last.op \in {"__aexit__", "__exit__"} /\ last.args = <<FALSE>>
RecordedSuccess == last.op \in {"__aexit__", "__exit__"} /\ last.args = <<TRUE>>
Observation == Admission \/ last.op \in {"state", "get_status"}

\* C1: from CLOSED with failure_count 0, the k-th failure recorded in a row
\* leaves the breaker CLOSED with failure_count = k while k < failure_threshold,
\* and the failure_threshold-th one moves it from CLOSED to OPEN.
C1_OpensOnNthFailure ==
    \A i \in Ids :
      LET b == breakers[i]
          N == b.config.failure_threshold
          k == hist[i].streak
      IN  /\ (k >= 1 /\ k < N) => (b.state = CLOSED /\ b.failure_count = k)
          /\ (RecordedFailure /\ last.id = i /\ k = N)
               => (b.state = OPEN /\ Old.state = CLOSED /\ Old.failure_count = N - 1)

\* a third failure in a row has just opened a breaker of failure_threshold 3
C1_Witness ==
    /\ RecordedFailure
    /\ Cfg.failure_threshold = 3
    /\ hist[last.id].streak = 3
    /\ Old.failure_count = 2
    /\ Cur.state = OPEN

\* C2: an admission attempted (async or sync) while the breaker is OPEN and
\* less than reset_timeout has elapsed since last_failure_time raises
\* CircuitBreakerError(state = OPEN, retry_after = max(0, reset_timeout -
\* elapsed)), and the caller does not run its function.
C2_OpenRejects ==
    (Admission /\ Old.state = OPEN /\ Old.last_failure_time # None
       /\ now - Old.last_failure_time < Old.config.reset_timeout)
    => /\ last.error = [raised |-> "CircuitBreakerError", state |-> OPEN,
                        retry_after |-> Max(0, Old.config.reset_timeout
                                               - (now - Old.last_failure_time))]
       /\ calls[last.caller] = IdleCall
       /\ Cur.state = OPEN

\* a call rejected one second after the failure, with one second left to wait
C2_Witness ==
    /\ Rejected
    /\ Old.state = OPEN
    /\ now - Old.last_failure_time = 1
    /\ last.error.retry_after = 1

\* C3: once a recorded failure has moved the breaker to OPEN at time t, and
\* no reset or force call has followed, every admission check, `state` read
\* and get_status() made at a time >= t + reset_timeout finds a state other
\* than OPEN.
C3_NotOpenAfterTimeout ==
    \A i \in Ids :
      (Observation /\ last.id = i /\ hist[i].opened_at # None
         /\ now >= hist[i].opened_at + breakers[i].config.reset_timeout)
      => breakers[i].state # OPEN

\* C4: in one HALF_OPEN episode at most half_open_max_calls calls are
\* admitted, whatever the interleaving; an attempt is rejected there only
\* once that many have been admitted, and then with state = HALF_OPEN.
C4_HalfOpenGate ==
    \A i \in Ids :
      LET b == breakers[i]
      IN  /\ b.state = HALF_OPEN
               => hist[i].admitted <= b.config.half_open_max_calls
          /\ (Rejected /\ last.id = i /\ b.state = HALF_OPEN)
               => /\ hist[i].admitted = b.config.half_open_max_calls
                  /\ last.error.state = HALF_OPEN
                  /\ calls[last.caller] = IdleCall
          /\ (Admitted /\ last.id = i /\ b.state = HALF_OPEN)
               => hist[i].admitted >= 1

\* with two calls admitted in the episode and none completed, a third is rejected
C4_Witness ==
    /\ Rejected
    /\ Cur.state = HALF_OPEN
    /\ Cfg.half_open_max_calls = 2
    /\ hist[last.id].admitted = 2
    /\ Cur.success_count = 0
    /\ \A c \in Callers \ {last.caller} : calls[c].pc = "running"

\* C5: a success recorded in HALF_OPEN counts; the breaker closes exactly
\* when the count reaches success_threshold, with failure_count 0, and
\* stays HALF_OPEN below it.
C5_ClosesOnThreshold ==
    /\ \A i \in Ids :
         breakers[i].state = HALF_OPEN
           => breakers[i].success_count < breakers[i].config.success_threshold
    /\ (RecordedSuccess /\ Old.state = HALF_OPEN)
         => IF Old.success_count + 1 >= Cfg.success_threshold
              THEN Cur.state = CLOSED /\ Cur.failure_count = 0
              ELSE Cur.state = HALF_OPEN /\ Cur.success_count = Old.success_count + 1

\* the second success closes a breaker of success_threshold 2 that had
\* failures on its count
C5_Witness ==
    /\ RecordedSuccess
    /\ Old.state = HALF_OPEN
    /\ Cfg.success_threshold = 2
    /\ Old.success_count = 1
    /\ Old.failure_count > 0
    /\ Cur.state = CLOSED

\* C6: a failure recorded in HALF_OPEN moves the breaker to OPEN and stamps
\* last_failure_time, whatever the counts; admissions are then rejected
\* until reset_timeout has elapsed from that failure.
C6_HalfOpenFailureReopens ==
    /\ (RecordedFailure /\ Old.state = HALF_OPEN)
         => /\ Cur.state = OPEN
            /\ Cur.last_failure_time = now
            /\ hist[last.id].opened_at = now
    /\ (Admission /\ hist[last.id].opened_from = HALF_OPEN
          /\ Old.state = OPEN
          /\ now < hist[last.id].opened_at + Cfg.reset_timeout)
         => /\ Rejected
            /\ last.error.state = OPEN
            /\ Cur.state = OPEN

\* a call rejected after a failure in HALF_OPEN that followed a success
C6_Witness ==
    /\ Rejected
    /\ hist[last.id].opened_from = HALF_OPEN
    /\ now < hist[last.id].opened_at + Cfg.reset_timeout
    /\ Cur.stats.successful_calls > 0
    /\ Cur.state = OPEN

\* C7: a success recorded in CLOSED leaves the breaker CLOSED with
\* failure_count 0, whatever the count was.
C7_SuccessClearsFailures ==
    (RecordedSuccess /\ Old.state = CLOSED)
    => (Cur.state = CLOSED /\ Cur.failure_count = 0)

\* failure_threshold - 1 = 2 failures, then a success
C7_Witness ==
    /\ RecordedSuccess
    /\ Old.state = CLOSED
    /\ Old.failure_count = Cfg.failure_threshold - 1
    /\ Old.failure_count = 2
    /\ Cur.failure_count = 0

\* C8: a rejected admission adds one to total_calls and to rejected_calls
\* and changes none of state, failure_count, success_count, half_open_calls,
\* last_failure_time, successful_calls, failed_calls; the caller records no
\* outcome.
C8_RejectionFrame ==
    Rejected
    => /\ Cur.stats.total_calls = Old.stats.total_calls + 1
       /\ Cur.stats.rejected_calls = Old.stats.rejected_calls + 1
       /\ Cur.state = Old.state
       /\ Cur.failure_count = Old.failure_count
       /\ Cur.success_count = Old.success_count
       /\ Cur.half_open_calls = Old.half_open_calls
       /\ Cur.last_failure_time = Old.last_failure_time
       /\ Cur.stats.successful_calls = Old.stats.successful_calls
       /\ Cur.stats.failed_calls = Old.stats.failed_calls
       /\ Cur.stats.last_failure_time = Old.stats.last_failure_time
       /\ calls[last.caller] = IdleCall

\* a rejection by a saturated HALF_OPEN breaker
C8_Witness ==
    /\ Rejected
    /\ Old.state = HALF_OPEN
    /\ Old.half_open_calls = Cfg.half_open_max_calls

----------------------------------------------------------------------------
(* Properties of construction and of the registry *)

Creating ==
    \/ last.op = "CircuitBreaker"
    \/ last.op = "get_circuit_breaker" /\ last.args[1] \notin DOMAIN last.pre.registry

\* C9: a constructing call (direct, or get_circuit_breaker on a new name)
\* with half_open_max_calls < success_threshold raises ValueError and leaves
\* the heap and the registry as they were; otherwise it adds one object,
\* CLOSED, with the configuration asked for and every counter and stat at 0,
\* registered under the name when built through the registry.
C9_ConstructionValidates ==
    Creating =>
      LET name == last.args[1]
          ft == last.args[2]
          st == last.args[3]
          rt == last.args[4]
          hom == last.args[5]
          n == Len(last.pre.breakers)
      IN  IF hom < st
            THEN /\ last.error.raised = "ValueError"
                 /\ breakers = last.pre.breakers
                 /\ registry = last.pre.registry
            ELSE /\ last.error.raised = "none"
                 /\ Len(breakers) = n + 1
                 /\ SubSeq(breakers, 1, n) = last.pre.breakers
                 /\ last.out = n + 1
                 /\ breakers[n + 1].name = name
                 /\ breakers[n + 1].config = CircuitBreakerConfig(ft, st, rt, hom)
                 /\ breakers[n + 1].state = CLOSED
                 /\ breakers[n + 1].failure_count = 0
                 /\ breakers[n + 1].success_count = 0
                 /\ breakers[n + 1].half_open_calls = 0
                 /\ breakers[n + 1].last_failure_time = None
                 /\ breakers[n + 1].stats = CircuitBreakerStats
                 /\ breakers[n + 1].event_history = <<>>
                 /\ IF last.op = "get_circuit_breaker"
                      THEN /\ DOMAIN registry = DOMAIN last.pre.registry \cup {name}
                           /\ registry[name] = n + 1
                      ELSE registry = last.pre.registry

\* get_circuit_breaker refused a new name while another name is registered
C9_Witness ==
    /\ last.op = "get_circuit_breaker"
    /\ last.error.raised = "ValueError"
    /\ last.args[5] < last.args[3]
    /\ DOMAIN registry # {}
    /\ last.args[1] \notin DOMAIN registry

\* C10: get_circuit_breaker on a registered name returns the object
\* registered first, whatever the other arguments, and changes nothing;
\* names keep their object, and different names have different objects.
C10_RegistrySingleton ==
    /\ (last.op = "get_circuit_breaker" /\ last.args[1] \in DOMAIN last.pre.registry)
         => /\ last.error.raised = "none"
            /\ last.out = last.pre.registry[last.args[1]]
            /\ breakers = last.pre.breakers
            /\ registry = last.pre.registry
    /\ \A n \in DOMAIN last.pre.registry :
         n \in DOMAIN registry /\ registry[n] = last.pre.registry[n]
    /\ \A n \in DOMAIN registry :
         registry[n] \in Ids /\ breakers[registry[n]].name = n
    /\ \A n1 \in DOMAIN registry, n2 \in DOMAIN registry :
         registry[n1] = registry[n2] => n1 = n2
    /\ \A i \in DOMAIN last.pre.breakers :
         /\ i \in Ids
         /\ breakers[i].config = last.pre.breakers[i].config
         /\ (last.op \in {"__enter__", "__exit__"} /\ i # last.id)
              => breakers[i] = last.pre.breakers[i]

\* a second lookup of a name, asking for another failure_threshold, returns
\* the first object with the failures recorded on it, the other name's
\* object having none
C10_Witness ==
    /\ last.op = "get_circuit_breaker"
    /\ last.args[1] \in DOMAIN last.pre.registry
    /\ breakers[last.out].config.failure_threshold # last.args[2]
    /\ breakers[last.out].stats.failed_calls > 0
    /\ \E n \in DOMAIN registry :
         n # last.args[1] /\ breakers[registry[n]].stats.failed_calls = 0

----------------------------------------------------------------------------
(* Properties of reset *)

\* breaker `new` is breaker `old` as reset() must leave it: the same object
\* with its configuration, CLOSED, counters and stats at 0, no failure time,
\* no event, and admitting a call now or at any later time
ResetOf(old, new) ==
    /\ new.name = old.name
    /\ new.config = old.config
    /\ new.state = CLOSED
    /\ new.failure_count = 0
    /\ new.success_count = 0
    /\ new.half_open_calls = 0
    /\ new.last_failure_time = None
    /\ new.stats = CircuitBreakerStats
    /\ new.stats.total_calls = 0
    /\ new.stats.state_changes = <<>>
    /\ new.event_history = <<>>
    /\ \A t \in now..MaxTime : ~EnterRejects(new, t, FALSE)

\* C11: reset() from any state, and reset_all_circuit_breakers() for every
\* registered breaker, leaves the breaker CLOSED with all counters and stats
\* at 0, last_failure_time cleared and no event, so that an admission is
\* admitted; other breakers are untouched and the registry keeps its names
\* and objects.
C11_ResetRestores ==
    /\ last.op = "reset"
         => /\ ResetOf(Old, Cur)
            /\ \A i \in Ids \ {last.id} : breakers[i] = last.pre.breakers[i]
    /\ last.op = "reset_all_circuit_breakers"
         => \A i \in Ids :
               IF i \in Registered
                 THEN ResetOf(last.pre.breakers[i], breakers[i])
                 ELSE breakers[i] = last.pre.breakers[i]
    /\ last.op \in {"reset", "reset_all_circuit_breakers"}
         => /\ registry = last.pre.registry
            /\ Len(breakers) = Len(last.pre.breakers)

\* reset_all_circuit_breakers() with two names registered, one breaker OPEN
\* with a failure on its stats
C11_Witness ==
    /\ last.op = "reset_all_circuit_breakers"
    /\ Cardinality(DOMAIN registry) = 2
    /\ \E i \in Registered :
          /\ last.pre.breakers[i].state = OPEN
          /\ last.pre.breakers[i].stats.failed_calls > 0
          /\ breakers[i].state = CLOSED

----------------------------------------------------------------------------
(* Part 2: the saga orchestrator of events/saga.py.                         *)
(*                                                                          *)
(* A task is one call of execute().  Its frame holds the locals of execute, *)
(* _execute_with_retry and _compensate; its position moves from one         *)
(* suspension point (an awaited notification, action, sleep or              *)
(* compensation) to the next.  The callables a caller supplies are named by *)
(* kind; what an invocation does is chosen when it ends.  The context       *)
(* carries the saga_id and the names of the steps whose result was merged.  *)

\* steps per orchestrator
MaxSteps == 3
\* retries of a step are drawn from 0..MaxRetries
MaxRetries == 2
\* number of execute() calls
NumSagaTasks == 2
\* number of values uuid4().hex[:8] can take
NumSagaIds == 2
\* number of orchestrators in the concurrent scenario
NumOrchestrators == 2

SagaTasks == 1..NumSagaTasks
SagaIds == 1..NumSagaIds
StepNames == <<"step_1", "step_2", "step_3">>

\* SagaStatus
PENDING == "pending"
RUNNING == "running"
COMPLETED == "completed"
FAILED == "failed"
COMPENSATING == "compensating"
COMPENSATED == "compensated"

\* None where a str or a callable is expected, and where an exception is
NoName == "None"
NoException == [kind |-> "None", step |-> "None", attempt |-> 0]

\* SagaStep
SagaStep(name, action, compensate, retries) ==
    [name |-> name, action |-> action, compensate |-> compensate, retries |-> retries]

\* a record that starts in the default-less PENDING status
SagaExecution_Pending(saga_id) ==
    [saga_id |-> saga_id, status |-> PENDING, steps_completed |-> <<>>,
     steps_compensated |-> <<>>, current_step |-> NoName, error |-> NoException,
     completed_at |-> None]

\* SagaExecution(saga_id=..., status=RUNNING, context=ctx)
SagaExecution(saga_id) ==
    [saga_id |-> saga_id, status |-> RUNNING, steps_completed |-> <<>>,
     steps_compensated |-> <<>>, current_step |-> NoName, error |-> NoException,
     completed_at |-> None]

\* SagaOrchestrator.__init__
SagaOrchestrator ==
    [steps |-> <<>>, executions |-> <<>>, event_handlers |-> <<>>]

\* the callables of SubscriptionSaga: they sleep 20 to 50 ms and return
SubscriptionActions ==
    {"_validate_quote", "_create_policy", "_create_invoice", "_generate_documents",
     "_send_notifications"}
SubscriptionCompensations == {"_cancel_policy", "_cancel_invoice", "_delete_documents"}

\* asyncio.iscoroutinefunction(f)
IsCoroutineFunction(f) == f # "sync_callable"

\* how an invocation of action f can end: it returns, raises, or (awaited
\* under wait_for) is cancelled at the deadline
ActionOutcomes(f) ==
    IF f \in SubscriptionActions THEN {"return"}
    ELSE IF f = "failing" THEN {"raise"}
    ELSE IF IsCoroutineFunction(f) THEN {"return", "raise", "timeout"}
    ELSE {"return", "raise"}

\* how an invocation of compensation f can end
CompensationOutcomes(f) ==
    IF f \in SubscriptionCompensations THEN {"return"} ELSE {"return", "raise"}

\* how a call of an event handler can end
HandlerOutcomes(h) == IF h = "raising_handler" THEN {"raise"} ELSE {"return"}

\* the exception a failed attempt leaves in last_error; str(e) is the value itself
StepError(kind, name, attempt) == [kind |-> kind, step |-> name, attempt |-> attempt]

\* reversed(seq)
Reversed(seq) == [i \in 1..Len(seq) |-> seq[Len(seq) + 1 - i]]

\* the dict execute() returns, with the keys it carries
Result(keys, status, saga_id, error, failed_step, compensated_steps, context) ==
    [keys |-> keys, status |-> status, saga_id |-> saga_id, error |-> error,
     failed_step |-> failed_step, compensated_steps |-> compensated_steps,
     context |-> context]

\* execute() has not returned
NoResult ==
    Result({}, "None", None, NoException, NoName, <<>>, [saga_id |-> None, merged |-> <<>>])

\* a task that has not called execute()
IdleTask ==
    [pc |-> "idle", orch |-> 0, saga_id |-> None, execution |-> 0,
     ctx |-> [saga_id |-> None, merged |-> <<>>],
     completed_steps |-> <<>>, step |-> 0, attempt |-> 0, last_error |-> NoException,
     failed_step_name |-> NoName, error |-> NoException, comp |-> 0,
     all_compensated |-> TRUE, result |-> NoResult]

\* an entry of the history of a task
Event(type, step) == [type |-> type, step |-> step]

\* isinstance(e, Exception), for the exceptions met here: the ones callables
\* raise and the TimeoutError of wait_for
IsException(kind) == kind \in {"Exception", "TimeoutError"}

\* a loop over the handlers without the try / except
NotifyRaises_Unguarded(o) ==
    \E i \in DOMAIN orchestrators[o].event_handlers :
       "raise" \in HandlerOutcomes(orchestrators[o].event_handlers[i])

\* _notify_event: TRUE when the loop over the handlers lets an exception out.
\* Each call is wrapped in try / except Exception: pass.
NotifyRaises(o) ==
    \E i \in DOMAIN orchestrators[o].event_handlers :
       /\ "raise" \in HandlerOutcomes(orchestrators[o].event_handlers[i])
       /\ ~IsException("Exception")

\* the frame tk after `await self._notify_event(...)`: it goes on to pc, or
\* the exception of a handler unwinds execute()
AfterNotify(tk, pc) ==
    IF NotifyRaises(tk.orch)
      THEN [tk EXCEPT !.pc = "raised"]
      ELSE [tk EXCEPT !.pc = pc]

OrchIds == DOMAIN orchestrators
StepsOf(tk) == orchestrators[tk.orch].steps

\* get_execution(saga_id): the identity of the record found, 0 for None
GetExecution(o, id) ==
    IF id \in DOMAIN orchestrators[o].executions
      THEN orchestrators[o].executions[id]
      ELSE 0

\* a call that works on the record the map holds under its saga_id
Frame_Shared(t) ==
    [tk |-> sagaTasks[t],
     x |-> sagaExecutions[GetExecution(sagaTasks[t].orch, sagaTasks[t].saga_id)],
     log |-> sagaLog[t]]

\* what a segment of execute() works on: the frame tk of the task, its
\* SagaExecution x and the history log of the task
Frame(t) ==
    [tk |-> sagaTasks[t], x |-> sagaExecutions[sagaTasks[t].execution],
     log |-> sagaLog[t]]

\* the segment of task t ends leaving frame F
Write(t, F) ==
    /\ sagaTasks' = [sagaTasks EXCEPT ![t] = F.tk]
    /\ sagaExecutions' = [sagaExecutions EXCEPT ![F.tk.execution] = F.x]
    /\ sagaLog' = [sagaLog EXCEPT ![t] = F.log]

\* an invocation or broadcast is added to the history
Logged(F, type, step) == [F EXCEPT !.log = Append(@, Event(type, step))]

\* await self._notify_event(type, {..., "step": step}), then on to pc
Notify(F, type, step, pc) ==
    [Logged(F, type, step) EXCEPT !.tk = AfterNotify(@, pc)]

\* SagaOrchestrator()
NewOrchestrator ==
    /\ Len(orchestrators) < NumOrchestrators
    /\ orchestrators' = Append(orchestrators, SagaOrchestrator)
    /\ UNCHANGED <<sagaExecutions, sagaTasks, sagaLog, cbVars, gatewayVars>>

\* no execute() has been called on orchestrator o
Unused(o) == \A t \in SagaTasks : sagaTasks[t].orch # o

\* add_step(action, compensate, retries=...) with callables; the step is named
\* step_<position>.  Steps are registered before the first execute().
AddStep(o, action, compensate, retries) ==
    /\ Unused(o)
    /\ Len(orchestrators[o].steps) < MaxSteps
    /\ LET step_name == StepNames[Len(orchestrators[o].steps) + 1]
       IN  orchestrators' = [orchestrators EXCEPT ![o].steps =
               Append(@, SagaStep(step_name, action, compensate, retries))]
    /\ UNCHANGED <<sagaExecutions, sagaTasks, sagaLog, cbVars, gatewayVars>>

\* on_event(handler)
OnEvent(o, handler) ==
    /\ Unused(o)
    /\ orchestrators[o].event_handlers = <<>>
    /\ orchestrators' = [orchestrators EXCEPT ![o].event_handlers = Append(@, handler)]
    /\ UNCHANGED <<sagaExecutions, sagaTasks, sagaLog, cbVars, gatewayVars>>

\* execute(context), lines 134-148, with a context of the caller's own; id is
\* the value of uuid4().hex[:8]
Execute(t, o, id) ==
    /\ sagaTasks[t].pc = "idle"
    /\ LET e == Len(sagaExecutions) + 1
           tk == [IdleTask EXCEPT !.orch = o, !.saga_id = id, !.execution = e,
                                  !.ctx.saga_id = id]
       IN  /\ sagaExecutions' = Append(sagaExecutions, SagaExecution(id))
           /\ orchestrators' = [orchestrators EXCEPT ![o].executions = SetItem(@, id, e)]
           /\ sagaTasks' = [sagaTasks EXCEPT ![t] = AfterNotify(tk, "next_step")]
           /\ sagaLog' = [sagaLog EXCEPT ![t] = <<Event("saga_started", NoName)>>]
    /\ UNCHANGED <<cbVars, gatewayVars>>

\* an except branch that records the failure and lets the loop go on
ExceptBranch_GoesOn(F, e) ==
    IF ~IsException(e.kind)
      THEN [F EXCEPT !.tk.pc = "raised"]
      ELSE Notify([F EXCEPT !.x.status = FAILED, !.x.error = e, !.tk.error = e,
                            !.tk.failed_step_name = F.x.current_step],
                  "saga_failed", F.x.current_step, "next_step")

\* execute(), lines 192-202: exception e of _execute_with_retry meets
\* `except Exception`
ExceptBranch(F, e) ==
    IF ~IsException(e.kind)
      THEN [F EXCEPT !.tk.pc = "raised"]
      ELSE Notify([F EXCEPT !.x.status = FAILED, !.x.error = e, !.tk.error = e,
                            !.tk.failed_step_name = F.x.current_step],
                  "saga_failed", F.x.current_step, "failed")

\* execute(), lines 154-159 and 177-190: the head of `for step in self.steps`
NextStep(t) ==
    /\ sagaTasks[t].pc = "next_step"
    /\ LET F == Frame(t)
           k == F.tk.step + 1
       IN  IF k <= Len(StepsOf(F.tk))
             THEN Write(t, Notify([F EXCEPT !.x.current_step = StepsOf(F.tk)[k].name,
                                            !.tk.step = k, !.tk.attempt = 0,
                                            !.tk.last_error = NoException],
                                  "step_started", StepsOf(F.tk)[k].name, "attempt"))
             ELSE Write(t, Notify([F EXCEPT !.x.status = COMPLETED,
                                            !.x.completed_at = now,
                                            !.x.current_step = NoName,
                                            !.tk.result =
                                               Result({"status", "saga_id", "context"},
                                                      "COMPLETED", F.tk.saga_id,
                                                      NoException, NoName, <<>>,
                                                      F.tk.ctx)],
                                  "saga_completed", NoName, "done"))
    /\ UNCHANGED <<orchestrators, cbVars, gatewayVars>>

\* `raise last_error or Exception(...)`, line 251
LastErrorOr(tk, name) ==
    IF tk.last_error # NoException THEN tk.last_error ELSE StepError("Exception", name, 0)

\* the entry of the history for an attempt that did not return
AttemptFailed(out) == IF out = "timeout" THEN "action_timed_out" ELSE "action_raised"

\* a retry loop that keeps the error of the first failed attempt
AttemptResult_FirstError(F, out) ==
    LET step == StepsOf(F.tk)[F.tk.step]
        e == IF F.tk.last_error # NoException
               THEN F.tk.last_error
               ELSE StepError(IF out = "timeout" THEN "TimeoutError" ELSE "Exception",
                              step.name, F.tk.attempt + 1)
    IN  IF out = "return"
          THEN Notify([F EXCEPT !.tk.ctx.merged = Append(@, step.name),
                                !.tk.completed_steps = Append(@, F.tk.step),
                                !.x.steps_completed = Append(@, step.name)],
                      "step_completed", step.name, "next_step")
          ELSE IF F.tk.attempt < step.retries - 1
                 THEN [Logged(F, AttemptFailed(out), step.name)
                         EXCEPT !.tk.last_error = e, !.tk.pc = "backoff"]
          ELSE ExceptBranch([Logged(F, AttemptFailed(out), step.name)
                               EXCEPT !.tk.last_error = e, !.tk.attempt = @ + 1], e)

\* _execute_with_retry, lines 240-251, then execute(), lines 165-175: the
\* attempt in flight has ended with `out`
AttemptResult(F, out) ==
    LET step == StepsOf(F.tk)[F.tk.step]
        e == StepError(IF out = "timeout" THEN "TimeoutError" ELSE "Exception",
                       step.name, F.tk.attempt + 1)
    IN  IF out = "return"
          THEN Notify([F EXCEPT !.tk.ctx.merged = Append(@, step.name),
                                !.tk.completed_steps = Append(@, F.tk.step),
                                !.x.steps_completed = Append(@, step.name)],
                      "step_completed", step.name, "next_step")
          ELSE IF ~IsException(e.kind)
                 THEN [F EXCEPT !.tk.pc = "raised"]
          ELSE IF F.tk.attempt < step.retries - 1
                 THEN [Logged(F, AttemptFailed(out), step.name)
                         EXCEPT !.tk.last_error = e, !.tk.pc = "backoff"]
          ELSE ExceptBranch([Logged(F, AttemptFailed(out), step.name)
                               EXCEPT !.tk.last_error = e, !.tk.attempt = @ + 1], e)

\* _execute_with_retry, lines 229-238: the head of `for attempt in
\* range(step.retries)`.  A coroutine function is awaited under wait_for; a
\* plain function runs to its end at once.
Attempt(t) ==
    /\ sagaTasks[t].pc = "attempt"
    /\ LET F == Frame(t)
           step == StepsOf(F.tk)[F.tk.step]
       IN  IF F.tk.attempt < step.retries
             THEN IF IsCoroutineFunction(step.action)
                    THEN Write(t, [Logged(F, "action", step.name)
                                     EXCEPT !.tk.pc = "in_action"])
                    ELSE \E out \in ActionOutcomes(step.action) :
                            Write(t, AttemptResult(Logged(F, "action", step.name), out))
             ELSE Write(t, ExceptBranch(F, LastErrorOr(F.tk, step.name)))
    /\ UNCHANGED <<orchestrators, cbVars, gatewayVars>>

\* the awaited action returns, raises, or is cancelled at the deadline
ActionEnds(t, out) ==
    /\ sagaTasks[t].pc = "in_action"
    /\ out \in ActionOutcomes(StepsOf(sagaTasks[t])[sagaTasks[t].step].action)
    /\ Write(t, AttemptResult(Frame(t), out))
    /\ UNCHANGED <<orchestrators, cbVars, gatewayVars>>

\* _execute_with_retry, lines 248-249: the sleep before the next attempt is over
Backoff(t) ==
    /\ sagaTasks[t].pc = "backoff"
    /\ Write(t, [Frame(t) EXCEPT !.tk.attempt = @ + 1, !.tk.pc = "attempt"])
    /\ UNCHANGED <<orchestrators, cbVars, gatewayVars>>

\* a sweep that counts as compensated only once a compensation has returned
StartCompensation_Pessimistic(t) ==
    /\ sagaTasks[t].pc = "failed"
    /\ Write(t, Notify([Frame(t) EXCEPT !.x.status = COMPENSATING,
                                        !.tk.all_compensated = FALSE,
                                        !.tk.comp = 0],
                       "compensation_started", NoName, "compensate"))
    /\ UNCHANGED <<orchestrators, cbVars, gatewayVars>>

\* _compensate, lines 266-273
StartCompensation(t) ==
    /\ sagaTasks[t].pc = "failed"
    /\ Write(t, Notify([Frame(t) EXCEPT !.x.status = COMPENSATING,
                                        !.tk.all_compensated = TRUE,
                                        !.tk.comp = 0],
                       "compensation_started", NoName, "compensate"))
    /\ UNCHANGED <<orchestrators, cbVars, gatewayVars>>

\* a sweep in completion order
StepsToCompensate_Forward(tk) == tk.completed_steps

\* reversed(completed_steps), line 276: the steps the sweep goes through
StepsToCompensate(tk) == Reversed(tk.completed_steps)

\* a sweep that does not skip the steps without a compensation
NextCompensation_NoSkip(tk) ==
    IF tk.comp < Len(StepsToCompensate(tk)) THEN tk.comp + 1 ELSE 0

\* the position in the sweep of the next step with a compensation, after
\* position tk.comp; 0 when there is none (lines 276-278)
NextCompensation(tk) ==
    LET todo == {j \in DOMAIN StepsToCompensate(tk) :
                    /\ j > tk.comp
                    /\ StepsOf(tk)[StepsToCompensate(tk)[j]].compensate # NoName}
    IN  IF todo = {} THEN 0 ELSE CHOOSE j \in todo : \A j2 \in todo : j <= j2

\* _compensate, lines 276-291 and 308-317, then execute(), lines 212-219
Compensate(t) ==
    /\ sagaTasks[t].pc = "compensate"
    /\ LET F == Frame(t)
           j == NextCompensation(F.tk)
       IN  IF j # 0
             THEN LET name == StepsOf(F.tk)[StepsToCompensate(F.tk)[j]].name
                  IN  Write(t, [Logged(Logged([F EXCEPT
                                         !.x.current_step = "compensate_" \o name,
                                         !.tk.comp = j],
                                     "compensation_step_started", name),
                                     "compensate", name)
                                  EXCEPT !.tk.pc = "in_compensation"])
             ELSE Write(t, Notify([F EXCEPT
                                     !.x.status = IF F.tk.all_compensated
                                                    THEN COMPENSATED ELSE FAILED,
                                     !.x.completed_at = now,
                                     !.x.current_step = NoName,
                                     !.tk.result =
                                        Result({"status", "saga_id", "error", "failed_step",
                                                "compensated_steps", "context"},
                                               IF F.tk.all_compensated
                                                 THEN "COMPENSATED"
                                                 ELSE "COMPENSATION_FAILED",
                                               F.tk.saga_id, F.tk.error,
                                               F.tk.failed_step_name,
                                               F.x.steps_compensated, F.tk.ctx)],
                                  "compensation_completed", NoName, "done"))
    /\ UNCHANGED <<orchestrators, cbVars, gatewayVars>>

\* a sweep that ends at the first compensation that raises
CompensationResult_Stops(F, out) ==
    LET name == StepsOf(F.tk)[StepsToCompensate(F.tk)[F.tk.comp]].name
    IN  IF out = "return"
          THEN Notify([F EXCEPT !.x.steps_compensated = Append(@, name)],
                      "compensation_step_completed", name, "compensate")
          ELSE Notify([F EXCEPT !.tk.all_compensated = FALSE,
                                !.tk.comp = Len(StepsToCompensate(F.tk))],
                      "compensation_step_failed", name, "compensate")

\* a sweep that tells nobody of a compensation that raised
CompensationResult_Silent(F, out) ==
    LET name == StepsOf(F.tk)[StepsToCompensate(F.tk)[F.tk.comp]].name
    IN  IF out = "return"
          THEN Notify([F EXCEPT !.x.steps_compensated = Append(@, name)],
                      "compensation_step_completed", name, "compensate")
          ELSE [F EXCEPT !.tk.all_compensated = FALSE, !.tk.pc = "compensate"]

\* _compensate, lines 293-306: the compensation in flight returns or raises
CompensationResult(F, out) ==
    LET name == StepsOf(F.tk)[StepsToCompensate(F.tk)[F.tk.comp]].name
    IN  IF out = "return"
          THEN Notify([F EXCEPT !.x.steps_compensated = Append(@, name)],
                      "compensation_step_completed", name, "compensate")
          ELSE IF ~IsException("Exception")
                 THEN [F EXCEPT !.tk.pc = "raised"]
          ELSE Notify([F EXCEPT !.tk.all_compensated = FALSE],
                      "compensation_step_failed", name, "compensate")

CompensationEnds(t, out) ==
    /\ sagaTasks[t].pc = "in_compensation"
    /\ LET tk == sagaTasks[t]
       IN  out \in CompensationOutcomes(
                      StepsOf(tk)[StepsToCompensate(tk)[tk.comp]].compensate)
    /\ Write(t, CompensationResult(Frame(t), out))
    /\ UNCHANGED <<orchestrators, cbVars, gatewayVars>>

\* the callables and handlers a caller supplies
UserActions == {"async_callable", "sync_callable"}
UserCompensations == {NoName, "callable"}
Handlers == {"handler", "raising_handler"}

\* one orchestrator, no step registered yet
InitSaga ==
    /\ NoCircuitBreaker
    /\ NoGateway
    /\ orchestrators = <<SagaOrchestrator>>
    /\ sagaExecutions = <<>>
    /\ sagaTasks = [t \in SagaTasks |-> IdleTask]
    /\ sagaLog = [t \in SagaTasks |-> <<>>]

\* one orchestrator is given its steps and a handler, then task 1 calls
\* execute() on it
NextSaga ==
    \/ \E a \in UserActions, c \in UserCompensations, r \in 0..MaxRetries :
          AddStep(1, a, c, r)
    \/ \E h \in Handlers : OnEvent(1, h)
    \/ Execute(1, 1, 1)
    \/ NextStep(1)
    \/ Attempt(1)
    \/ \E out \in {"return", "raise", "timeout"} : ActionEnds(1, out)
    \/ Backoff(1)
    \/ StartCompensation(1)
    \/ Compensate(1)
    \/ \E out \in {"return", "raise"} : CompensationEnds(1, out)

SpecSaga == InitSaga /\ [][NextSaga]_vars

\* add_step(..., retries: int = 3)
DefaultRetries == 3

\* SubscriptionSaga.__init__: the five steps, in order
SubscriptionSteps ==
    << SagaStep("validate_quote", "_validate_quote", NoName, DefaultRetries),
       SagaStep("create_policy", "_create_policy", "_cancel_policy", DefaultRetries),
       SagaStep("create_invoice", "_create_invoice", "_cancel_invoice", DefaultRetries),
       SagaStep("generate_documents", "_generate_documents", "_delete_documents",
                DefaultRetries),
       SagaStep("send_notifications", "_send_notifications", NoName, DefaultRetries) >>

\* the steps of a SubscriptionSaga whose step k has had its action replaced
\* by a coroutine function that always raises; k = 0 leaves them as they are
PatchedSteps(k) ==
    [j \in DOMAIN SubscriptionSteps |->
        IF j = k THEN [SubscriptionSteps[j] EXCEPT !.action = "failing"]
        ELSE SubscriptionSteps[j]]

\* the position of the step that was patched, 0 when none was
Patched(t) ==
    LET ks == {k \in DOMAIN StepsOf(sagaTasks[t]) : StepsOf(sagaTasks[t])[k].action = "failing"}
    IN  IF ks = {} THEN 0 ELSE CHOOSE k \in ks : TRUE

\* one SubscriptionSaga, as constructed or with one action patched
InitSubscription ==
    /\ NoCircuitBreaker
    /\ NoGateway
    /\ \E k \in 0..Len(SubscriptionSteps) :
          orchestrators = <<[SagaOrchestrator EXCEPT !.steps = PatchedSteps(k)]>>
    /\ sagaExecutions = <<>>
    /\ sagaTasks = [t \in SagaTasks |-> IdleTask]
    /\ sagaLog = [t \in SagaTasks |-> <<>>]

\* task 1 calls execute() on the SubscriptionSaga
NextSubscription ==
    \/ \E id \in SagaIds : Execute(1, 1, id)
    \/ NextStep(1)
    \/ Attempt(1)
    \/ \E out \in {"return", "raise", "timeout"} : ActionEnds(1, out)
    \/ Backoff(1)
    \/ StartCompensation(1)
    \/ Compensate(1)
    \/ \E out \in {"return", "raise"} : CompensationEnds(1, out)

SpecSubscription == InitSubscription /\ [][NextSubscription]_vars

\* execute() calls that overlap: up to NumOrchestrators orchestrators of up
\* to MaxSteps async steps with a compensation, and NumSagaTasks calls, each
\* with a context of its own, interleaved at every await
NextSagaConcurrent ==
    \/ NewOrchestrator
    \/ \E o \in OrchIds : AddStep(o, "async_callable", "callable", 1)
    \/ \E t \in SagaTasks, o \in OrchIds, id \in SagaIds : Execute(t, o, id)
    \/ \E t \in SagaTasks : NextStep(t)
    \/ \E t \in SagaTasks : Attempt(t)
    \/ \E t \in SagaTasks, out \in {"return", "raise", "timeout"} : ActionEnds(t, out)
    \/ \E t \in SagaTasks : StartCompensation(t)
    \/ \E t \in SagaTasks : Compensate(t)
    \/ \E t \in SagaTasks, out \in {"return", "raise"} : CompensationEnds(t, out)

SpecSagaConcurrent == InitSaga /\ [][NextSagaConcurrent]_vars

(***************************************************************************)
(* Properties of the saga orchestrator.  sagaLog[t] is the history of the  *)
(* execute() call of task t: the invocations of actions ("action") and of  *)
(* compensations ("compensate"), and the events broadcast, in order.       *)
(***************************************************************************)

\* the tasks that have called execute()
Started == {t \in SagaTasks : sagaTasks[t].pc # "idle"}

\* the tasks whose execute() has returned
Returned == {t \in SagaTasks : sagaTasks[t].pc = "done"}

\* the SagaExecution of task t
ExecutionOf(t) == sagaExecutions[sagaTasks[t].execution]

\* the position of the step called name in the steps of the orchestrator of t
StepPosition(t, name) ==
    CHOOSE k \in DOMAIN StepsOf(sagaTasks[t]) : StepsOf(sagaTasks[t])[k].name = name

\* the positions of the history of t that hold an entry of this type
Entries(t, type) == {i \in DOMAIN sagaLog[t] : sagaLog[t][i].type = type}

\* the positions of the history of t that hold this entry
EntriesOf(t, type, name) == {i \in Entries(t, type) : sagaLog[t][i].step = name}

\* the names of the entries of this type in the history of t, in order
RECURSIVE NamesIn(_, _)
NamesIn(log, type) ==
    IF log = <<>> THEN <<>>
    ELSE IF log[1].type = type THEN <<log[1].step>> \o NamesIn(Tail(log), type)
    ELSE NamesIn(Tail(log), type)

\* C12: within one execute() the actions are invoked in registration order.
\* The action of step k is invoked only once every step before k has been
\* appended to steps_completed (which happens together with the broadcast of
\* its step_completed), never again once step k is completed, and no action
\* is invoked after a step has failed (saga_failed).
C12_RegistrationOrder ==
    \A t \in Started :
       /\ ExecutionOf(t).steps_completed = NamesIn(sagaLog[t], "step_completed")
       /\ \A i \in Entries(t, "action") :
             LET k == StepPosition(t, sagaLog[t][i].step)
             IN  /\ \A j \in 1..(k - 1) :
                       \E c \in EntriesOf(t, "step_completed", StepsOf(sagaTasks[t])[j].name) :
                          c < i
                 /\ \A c \in EntriesOf(t, "step_completed", sagaLog[t][i].step) : i < c
                 /\ \A f \in Entries(t, "saga_failed") : i < f
       /\ \A i, j \in Entries(t, "action") :
             i < j => StepPosition(t, sagaLog[t][i].step) <= StepPosition(t, sagaLog[t][j].step)

\* three steps; the second failed after two attempts and the call has returned
C12_Witness ==
    \E t \in Returned :
       /\ Len(StepsOf(sagaTasks[t])) = 3
       /\ ExecutionOf(t).steps_completed = <<"step_1">>
       /\ Cardinality(EntriesOf(t, "action", "step_2")) = 2
       /\ sagaTasks[t].result.failed_step = "step_2"

\* a is an initial segment of b
IsPrefix(a, b) == Len(a) <= Len(b) /\ a = SubSeq(b, 1, Len(a))

\* the steps task t has completed that have a compensation, last completed first
ExpectedCompensations(t) ==
    SelectSeq(Reversed(ExecutionOf(t).steps_completed),
              LAMBDA n : StepsOf(sagaTasks[t])[StepPosition(t, n)].compensate # NoName)

\* C13: when step k fails the compensations invoked are those of the
\* completed steps k-1, ..., 1 in that order, without the steps whose
\* compensate is None; no compensation is invoked for the failed step or
\* for a step after it, none before the failure, and none twice.  When
\* execute() has returned the whole list has been gone through.
C13_ReverseCompensation ==
    \A t \in Started :
       LET invoked == NamesIn(sagaLog[t], "compensate")
       IN  /\ IsPrefix(invoked, ExpectedCompensations(t))
           /\ t \in Returned /\ sagaTasks[t].result.status # "COMPLETED"
                 => invoked = ExpectedCompensations(t)
           /\ \A i \in Entries(t, "compensate") :
                 /\ \E f \in Entries(t, "saga_failed") :
                       /\ f < i
                       /\ StepPosition(t, sagaLog[t][i].step)
                             < StepPosition(t, sagaLog[t][f].step)
                 /\ Cardinality(EntriesOf(t, "compensate", sagaLog[t][i].step)) = 1

\* the third step failed; the second and then the first were compensated
C13_Witness ==
    \E t \in Returned :
       /\ sagaTasks[t].result.failed_step = "step_3"
       /\ NamesIn(sagaLog[t], "compensate") = <<"step_2", "step_1">>

\* the calls of execute() that have returned after a step failed
ReturnedFailed == {t \in Returned : sagaTasks[t].result.status # "COMPLETED"}

\* C14: a compensation that raises does not stop the sweep: every completed
\* step with a compensation has had it invoked when execute() returns.  The
\* result is COMPENSATED, and the record COMPENSATED, exactly when no invoked
\* compensation raised; otherwise the result is COMPENSATION_FAILED and the
\* record is left FAILED.  compensated_steps is the list of the steps whose
\* compensation returned, in the order of the sweep.
C14_BestEffortSweep ==
    \A t \in ReturnedFailed :
       LET r == sagaTasks[t].result
           raised == Entries(t, "compensation_step_failed")
       IN  /\ NamesIn(sagaLog[t], "compensate") = ExpectedCompensations(t)
           /\ Cardinality(Entries(t, "compensate"))
                 = Cardinality(raised)
                   + Cardinality(Entries(t, "compensation_step_completed"))
           /\ r.status = "COMPENSATED" <=> raised = {}
           /\ r.status \in {"COMPENSATED", "COMPENSATION_FAILED"}
           /\ ExecutionOf(t).status =
                 (IF r.status = "COMPENSATED" THEN COMPENSATED ELSE FAILED)
           /\ r.compensated_steps = NamesIn(sagaLog[t], "compensation_step_completed")
           /\ "compensated_steps" \in r.keys

\* the compensation of the second step raised and the one of the first step
\* was invoked after it and returned
C14_Witness ==
    \E t \in ReturnedFailed :
       /\ NamesIn(sagaLog[t], "compensation_step_failed") = <<"step_2">>
       /\ NamesIn(sagaLog[t], "compensate") = <<"step_2", "step_1">>
       /\ sagaTasks[t].result.status = "COMPENSATION_FAILED"
       /\ sagaTasks[t].result.compensated_steps = <<"step_1">>

\* the names of the steps of the orchestrator of task t, in registration order
StepNamesOf(t) ==
    [k \in DOMAIN StepsOf(sagaTasks[t]) |-> StepsOf(sagaTasks[t])[k].name]

\* C15: no exception leaves execute(), whether raised by an action, by a
\* compensation or by an event handler.  The dict returned holds saga_id
\* and a status among COMPLETED, COMPENSATED and COMPENSATION_FAILED; it is
\* COMPLETED exactly when every step was completed, and otherwise it also
\* holds error and failed_step, both naming the first step that was not
\* completed, the one whose action failed.
C15_NeverRaises ==
    /\ \A t \in SagaTasks : sagaTasks[t].pc # "raised"
    /\ \A t \in Returned :
          LET r == sagaTasks[t].result
              done == ExecutionOf(t).steps_completed
          IN  /\ {"status", "saga_id"} \subseteq r.keys
              /\ r.saga_id = sagaTasks[t].saga_id
              /\ r.status \in {"COMPLETED", "COMPENSATED", "COMPENSATION_FAILED"}
              /\ r.status = "COMPLETED" <=> done = StepNamesOf(t)
              /\ r.status # "COMPLETED" =>
                    /\ {"error", "failed_step"} \subseteq r.keys
                    /\ Len(done) < Len(StepNamesOf(t))
                    /\ r.failed_step = StepNamesOf(t)[Len(done) + 1]
                    /\ r.error # NoException
                    /\ r.error.step = r.failed_step

\* a handler that raises is registered, an action raised, a compensation
\* raised, and execute() has returned
C15_Witness ==
    \E t \in Returned :
       /\ orchestrators[sagaTasks[t].orch].event_handlers = <<"raising_handler">>
       /\ sagaTasks[t].result.status = "COMPENSATION_FAILED"
       /\ sagaTasks[t].result.error.kind = "Exception"
       /\ Entries(t, "compensation_step_failed") # {}

\* C16: every execute() call gets a saga_id no other call has, so the map
\* of an orchestrator holds one record per call made on it, and
\* get_execution(saga_id) finds the record of the call that was given this
\* saga_id: no record is replaced by the one of a later call.
C16_UniqueSagaIds ==
    /\ \A t1, t2 \in Started : t1 # t2 => sagaTasks[t1].saga_id # sagaTasks[t2].saga_id
    /\ \A o \in OrchIds :
          Cardinality(DOMAIN orchestrators[o].executions)
             = Cardinality({t \in Started : sagaTasks[t].orch = o})
    /\ \A t \in Started :
          GetExecution(sagaTasks[t].orch, sagaTasks[t].saga_id) = sagaTasks[t].execution

\* the position in log of the last failed attempt of the step called name,
\* 0 when it has none
LastFailure(log, name) ==
    LET fails == {i \in DOMAIN log : /\ log[i].type \in {"action_raised", "action_timed_out"}
                                     /\ log[i].step = name}
    IN  IF fails = {} THEN 0 ELSE CHOOSE i \in fails : \A j \in fails : j <= i

\* the exception a step leaves when its attempts ended as the history says
ErrorAlone(log, failed) ==
    LET i == LastFailure(log, failed)
    IN  IF i = 0 THEN StepError("Exception", failed, 0)
        ELSE StepError(IF log[i].type = "action_timed_out"
                         THEN "TimeoutError" ELSE "Exception",
                       failed,
                       Cardinality({j \in DOMAIN log : log[j] = Event("action", failed)}))

\* the dict an execute() call with saga_id id returns when it runs alone on
\* the steps called names and its callables end as they did in log
ResultAlone(names, log, id) ==
    LET done == NamesIn(log, "step_completed")
        ctx == [saga_id |-> id, merged |-> done]
    IN  IF done = names
          THEN Result({"status", "saga_id", "context"}, "COMPLETED", id,
                      NoException, NoName, <<>>, ctx)
          ELSE Result({"status", "saga_id", "error", "failed_step",
                       "compensated_steps", "context"},
                      IF NamesIn(log, "compensation_step_failed") = <<>>
                        THEN "COMPENSATED" ELSE "COMPENSATION_FAILED",
                      id, ErrorAlone(log, names[Len(done) + 1]),
                      names[Len(done) + 1],
                      NamesIn(log, "compensation_step_completed"), ctx)

\* C19: execute() calls that overlap, on one orchestrator or on several,
\* each with its own context, do not interfere.  The record and the context
\* of a call hold the steps this call completed, a call compensates only
\* steps it completed itself, and the dict it returns is the one it would
\* return alone: COMPLETED with every step name in steps_completed when all
\* its steps succeeded.
C19_NoInterference ==
    /\ \A t \in Started :
          /\ ExecutionOf(t).saga_id = sagaTasks[t].saga_id
          /\ ExecutionOf(t).steps_completed = NamesIn(sagaLog[t], "step_completed")
          /\ sagaTasks[t].ctx.merged = NamesIn(sagaLog[t], "step_completed")
          /\ ExecutionOf(t).steps_compensated
                = NamesIn(sagaLog[t], "compensation_step_completed")
          /\ IsPrefix(NamesIn(sagaLog[t], "compensate"), ExpectedCompensations(t))
    /\ \A t \in Returned :
          /\ sagaTasks[t].result
                = ResultAlone(StepNamesOf(t), sagaLog[t], sagaTasks[t].saga_id)
          /\ sagaTasks[t].result.status = "COMPLETED"
                => ExecutionOf(t).steps_completed = StepNamesOf(t)

\* two calls on one orchestrator of three steps: the second started after
\* the first, failed at its second step, compensated its first step and
\* returned while the first call, two steps completed, is inside its third
C19_Witness ==
    \E t1, t2 \in SagaTasks :
       /\ sagaTasks[t1].orch = sagaTasks[t2].orch
       /\ sagaTasks[t1].execution < sagaTasks[t2].execution
       /\ sagaTasks[t1].pc = "in_action"
       /\ ExecutionOf(t1).steps_completed = <<"step_1", "step_2">>
       /\ t2 \in Returned
       /\ sagaTasks[t2].result.failed_step = "step_2"
       /\ sagaTasks[t2].result.compensated_steps = <<"step_1">>

\* the number of entries of this type for the step called name
Count(t, type, name) == Cardinality(EntriesOf(t, type, name))

\* C17: within one execute() the action of a step with retries = R is
\* invoked at most R times.  Every attempt ends in a return, an exception or
\* a timeout; the first return ends the attempts and the step is recorded
\* completed once; a timeout is one failed attempt, after which the next
\* attempt is made like after an exception: the step fails only when R
\* attempts have failed, and then the error of the record and of the result
\* is the error of the last attempt.
C17_Retries ==
    \A t \in Started :
       \A k \in DOMAIN StepsOf(sagaTasks[t]) :
          LET step == StepsOf(sagaTasks[t])[k]
              n == step.name
              failures == Count(t, "action_raised", n) + Count(t, "action_timed_out", n)
              running == IF sagaTasks[t].pc = "in_action" /\ sagaTasks[t].step = k
                           THEN 1 ELSE 0
          IN  /\ Count(t, "action", n) <= step.retries
              /\ Count(t, "step_completed", n) <= 1
              /\ Count(t, "action", n) = failures + Count(t, "step_completed", n) + running
              /\ Len(SelectSeq(ExecutionOf(t).steps_completed, LAMBDA c : c = n))
                    = Count(t, "step_completed", n)
              /\ \A c \in EntriesOf(t, "step_completed", n) :
                    \A i \in EntriesOf(t, "action", n) : i < c
              /\ EntriesOf(t, "saga_failed", n) # {} =>
                    /\ failures = step.retries
                    /\ Count(t, "step_completed", n) = 0
                    /\ ExecutionOf(t).error = ErrorAlone(sagaLog[t], n)
                    /\ ExecutionOf(t).error.attempt = step.retries
                    /\ t \in Returned => sagaTasks[t].result.error = ErrorAlone(sagaLog[t], n)

\* retries = 2: the first attempt raised, the second timed out, and the
\* result reports the timeout
C17_Witness ==
    \E t \in Returned :
       /\ StepsOf(sagaTasks[t]) # <<>>
       /\ StepsOf(sagaTasks[t])[1].retries = 2
       /\ NamesIn(sagaLog[t], "action") = <<"step_1", "step_1">>
       /\ Count(t, "action_raised", "step_1") = 1
       /\ sagaTasks[t].result.error = StepError("TimeoutError", "step_1", 2)

\* C18: in a SubscriptionSaga whose step k always raises, while its
\* compensations return, execute() returns COMPENSATED with failed_step the
\* name of step k, and compensated_steps is the list of the steps completed
\* before k among create_policy, create_invoice and generate_documents, last
\* completed first: [create_policy] when create_invoice fails,
\* [create_invoice, create_policy] when generate_documents fails.
\* validate_quote and send_notifications are never in it.
C18_SubscriptionCompensation ==
    \A t \in Started :
       /\ \A i \in DOMAIN ExecutionOf(t).steps_compensated :
             ExecutionOf(t).steps_compensated[i]
                \notin {"validate_quote", "send_notifications"}
       /\ t \in Returned =>
             LET r == sagaTasks[t].result
                 k == Patched(t)
             IN  IF k = 0 THEN r.status = "COMPLETED"
                 ELSE /\ r.status = "COMPENSATED"
                      /\ r.failed_step = SubscriptionSteps[k].name
                      /\ r.compensated_steps =
                            CASE k \in {1, 2} -> <<>>
                              [] k = 3 -> <<"create_policy">>
                              [] k = 4 -> <<"create_invoice", "create_policy">>
                              [] k = 5 -> <<"generate_documents", "create_invoice",
                                            "create_policy">>

\* generate_documents was patched, was tried three times, and execute() has
\* returned with create_invoice and create_policy compensated
C18_Witness ==
    \E t \in Returned :
       /\ Patched(t) = 4
       /\ Count(t, "action", "generate_documents") = DefaultRetries
       /\ sagaTasks[t].result.compensated_steps = <<"create_invoice", "create_policy">>

(***************************************************************************)
(* Part 3: the token bucket of applications/gateway.py.                    *)
(*                                                                         *)
(* tokens is a float in the code; here it is counted in units of           *)
(* 1/TokenUnit token, and refill_rate in units per tick of the clock.      *)
(* tokenBuckets is the heap of TokenBucket objects, gwLast the last call   *)
(* made on one.                                                            *)
(***************************************************************************)

\* number of TokenBucket objects
MaxBuckets == 2
\* capacity is drawn from 0..MaxCapacity tokens
MaxCapacity == 2
\* refill_rate is drawn from 0..MaxRefillRate units per tick
MaxRefillRate == 2
\* consume(n) is called with n in 1..MaxConsume
MaxConsume == 2
\* units per token
TokenUnit == 2

BucketIds == DOMAIN tokenBuckets

\* min(a, b)
Min(a, b) == IF a <= b THEN a ELSE b

\* TokenBucket.__init__ at time t
TokenBucket(capacity, refill_rate, t) ==
    [capacity |-> capacity * TokenUnit, refill_rate |-> refill_rate,
     tokens |-> capacity * TokenUnit, last_update |-> t]

\* a refill that is not capped
Refilled_Uncapped(b, t) == b.tokens + (t - b.last_update) * b.refill_rate

\* consume, lines 45-47: tokens after the lazy refill at time t
Refilled(b, t) == Min(b.capacity, b.tokens + (t - b.last_update) * b.refill_rate)

\* consume, line 50: the n tokens are there at time t
CanConsume(b, n, t) == Refilled(b, t) >= n * TokenUnit

\* the bucket after consume(n) at time t
Consumed(b, n, t) ==
    [b EXCEPT !.tokens = IF CanConsume(b, n, t)
                           THEN Refilled(b, t) - n * TokenUnit
                           ELSE Refilled(b, t),
              !.last_update = t]

\* TokenBucket(capacity, refill_rate)
NewTokenBucket(capacity, refill_rate) ==
    /\ Len(tokenBuckets) < MaxBuckets
    /\ tokenBuckets' = Append(tokenBuckets, TokenBucket(capacity, refill_rate, now))
    /\ gwLast' = [op |-> "new", bucket |-> Len(tokenBuckets) + 1, n |-> 0, at |-> now,
                  out |-> TRUE,
                  pre |-> TokenBucket(capacity, refill_rate, now)]
    /\ UNCHANGED <<gateway, gwChecks, gwHandled, gwRegistered, cbVars, sagaVars>>

\* bucket.consume(n)
Consume(i, n) ==
    /\ tokenBuckets' = [tokenBuckets EXCEPT ![i] = Consumed(@, n, now)]
    /\ gwLast' = [op |-> "consume", bucket |-> i, n |-> n, at |-> now,
                  out |-> CanConsume(tokenBuckets[i], n, now), pre |-> tokenBuckets[i]]
    /\ UNCHANGED <<gateway, gwChecks, gwHandled, gwRegistered, cbVars, sagaVars>>

\* no bucket built, the clock at its first value
InitGateway ==
    /\ NoCircuitBreaker
    /\ NoSaga
    /\ NoGateway

\* buckets are built and consumed from while time passes
NextGateway ==
    \/ \E capacity \in 0..MaxCapacity, refill_rate \in 0..MaxRefillRate :
          NewTokenBucket(capacity, refill_rate)
    \/ \E i \in BucketIds, n \in 1..MaxConsume : Consume(i, n)
    \/ Tick

SpecGateway == InitGateway /\ [][NextGateway]_vars

\* C20: after any sequence of consume(n) calls, n >= 1, made at times that
\* do not decrease, 0 <= tokens <= capacity.  A consume that returns False
\* leaves tokens at its value after the lazy refill, a consume that returns
\* True leaves it n below that value; it returns True exactly when the
\* refilled value is at least n.
C20_TokenConservation ==
    /\ \A i \in BucketIds :
          /\ 0 <= tokenBuckets[i].tokens
          /\ tokenBuckets[i].tokens <= tokenBuckets[i].capacity
    /\ gwLast.op = "consume" =>
          LET b == tokenBuckets[gwLast.bucket]
              topped == gwLast.pre.tokens
                           + (gwLast.at - gwLast.pre.last_update) * gwLast.pre.refill_rate
              refill == IF topped > gwLast.pre.capacity THEN gwLast.pre.capacity ELSE topped
          IN  /\ gwLast.out <=> refill >= gwLast.n * TokenUnit
              /\ ~gwLast.out => b.tokens = refill
              /\ gwLast.out => b.tokens = refill - gwLast.n * TokenUnit

\* a consume(2) has returned False on a bucket half refilled, which was left
\* with its one and a half tokens, short of its capacity of two
C20_Witness ==
    /\ gwLast.op = "consume"
    /\ ~gwLast.out
    /\ gwLast.n = 2
    /\ tokenBuckets[gwLast.bucket].capacity = 2 * TokenUnit
    /\ tokenBuckets[gwLast.bucket].tokens = 3
    /\ gwLast.pre.tokens < 3

----------------------------------------------------------------------------
(***************************************************************************)
(* Part 4: RateLimiter and APIGateway of applications/gateway.py.          *)
(*                                                                         *)
(* gateway is the APIGateway object with the RateLimiter it owns; the      *)
(* buckets of the limiter live in tokenBuckets.  routes is a dict: here a  *)
(* sequence of RouteConfig in the order their prefixes were first          *)
(* inserted.  Strings that are sliced or matched (paths, prefixes) are     *)
(* sequences of characters.  One tick of the clock is TickSeconds seconds. *)
(* Header values that the code formats with str() are kept as the numbers  *)
(* formatted.  gwChecks, gwHandled and gwRegistered are histories: every   *)
(* RateLimiter.check call and every handle_request call with what it       *)
(* returned, and every register_route call, in order.                      *)
(***************************************************************************)

\* seconds in one tick of the clock
TickSeconds == 30
\* route registrations made in all
MaxRegistrations == 2
\* handle_request calls made in the gateway scenario
MaxRequests == 3
\* RateLimiter.check calls made in the rate limiter scenario
MaxChecks == 4
\* burst_size of the configs a caller supplies is drawn from 1..MaxBurst
MaxBurst == 2
\* len(request_log) above which _log truncates: 1000 in the code
LogLimit == 4
\* what _log keeps when it truncates: 500 in the code, half the limit
LogKeep == LogLimit \div 2
\* handle_request calls made in the request log scenario
MaxLogRequests == 2 * LogLimit

Clients == {"client_1", "client_2"}
Methods == {"GET", "POST"}
PathPrefixes == {<<"a">>, <<"a", "b">>}
RequestPaths == {<<"a", "b">>, <<"a", "c">>, <<"c">>}
Services == {"svc_a", "svc_b"}

\* RouteConfig; rate_limit is <<>> for None and <<config>> otherwise
RouteConfig(path_prefix, service_name, rate_limit, allowed_methods) ==
    [path_prefix |-> path_prefix, service_name |-> service_name,
     rate_limit |-> rate_limit, require_auth |-> TRUE,
     allowed_methods |-> allowed_methods]

\* x or default, for an Optional that is None or an object
OrElse(x, default) == IF x = <<>> THEN default ELSE x[1]

\* requests_per_minute / 60 tokens per second, in units per tick
RefillRate(requests_per_minute) ==
    (requests_per_minute * TickSeconds * TokenUnit) \div 60

\* a get_state that rounds remaining up
GetState_RoundsUp(b) ==
    [remaining |-> (b.tokens + TokenUnit - 1) \div TokenUnit,
     limit |-> b.capacity \div TokenUnit,
     reset_in |-> IF b.refill_rate > 0
                    THEN ((b.capacity - b.tokens) * TickSeconds) \div b.refill_rate
                    ELSE 0]

\* TokenBucket.get_state; reset_in is in seconds
GetState(b) ==
    [remaining |-> b.tokens \div TokenUnit,
     limit |-> b.capacity \div TokenUnit,
     reset_in |-> IF b.refill_rate > 0
                    THEN ((b.capacity - b.tokens) * TickSeconds) \div b.refill_rate
                    ELSE 0]

\* a check that keeps one bucket for every client
CheckOf_OneBucket(rl, heap, client_id, config, t) ==
    LET cfg == OrElse(config, rl.default_config)
        created == "client" \notin DOMAIN rl.buckets
        heap1 == IF created
                   THEN Append(heap, TokenBucket(cfg.burst_size,
                                                 RefillRate(cfg.requests_per_minute), t))
                   ELSE heap
        id == IF created THEN Len(heap) + 1 ELSE rl.buckets["client"]
        allowed == CanConsume(heap1[id], 1, t)
        bucket == Consumed(heap1[id], 1, t)
        state == GetState(bucket)
    IN  [rate_limiter |-> [rl EXCEPT !.buckets = SetItem(@, "client", id)],
         heap |-> [heap1 EXCEPT ![id] = bucket],
         id |-> id, created |-> created, before |-> heap1[id], cfg |-> cfg,
         allowed |-> allowed,
         headers |-> ("X-RateLimit-Limit" :> cfg.requests_per_minute)
                        @@ ("X-RateLimit-Remaining" :> state.remaining)
                        @@ ("X-RateLimit-Reset" :> t * TickSeconds + state.reset_in)]

\* what RateLimiter.check(client_id, config) does on limiter rl with the heap
\* of buckets at time t: the limiter and the heap afterwards, the bucket
\* used, and the tuple returned
CheckOf(rl, heap, client_id, config, t) ==
    LET cfg == OrElse(config, rl.default_config)
        created == client_id \notin DOMAIN rl.buckets
        heap1 == IF created
                   THEN Append(heap, TokenBucket(cfg.burst_size,
                                                 RefillRate(cfg.requests_per_minute), t))
                   ELSE heap
        id == IF created THEN Len(heap) + 1 ELSE rl.buckets[client_id]
        allowed == CanConsume(heap1[id], 1, t)
        bucket == Consumed(heap1[id], 1, t)
        state == GetState(bucket)
    IN  [rate_limiter |-> [rl EXCEPT !.buckets = SetItem(@, client_id, id)],
         heap |-> [heap1 EXCEPT ![id] = bucket],
         id |-> id, created |-> created, before |-> heap1[id], cfg |-> cfg,
         allowed |-> allowed,
         headers |-> ("X-RateLimit-Limit" :> cfg.requests_per_minute)
                        @@ ("X-RateLimit-Remaining" :> state.remaining)
                        @@ ("X-RateLimit-Reset" :> t * TickSeconds + state.reset_in)]

\* the entry of gwChecks for a check that went as k
CheckRecord(k, client_id, t) ==
    [client_id |-> client_id, at |-> t, cfg |-> k.cfg, created |-> k.created,
     bucket |-> k.id, capacity |-> k.before.capacity, refill_rate |-> k.before.refill_rate,
     allowed |-> k.allowed, headers |-> k.headers]

\* the bookkeeping of a consume(1) made inside check
ConsumeRecord(k, t) ==
    [op |-> "consume", bucket |-> k.id, n |-> 1, at |-> t, out |-> k.allowed,
     pre |-> k.before]

\* rate_limiter.check(client_id, config) called directly
Check(client_id, config) ==
    LET k == CheckOf(gateway.rate_limiter, tokenBuckets, client_id, config, now)
    IN  /\ gateway' = [gateway EXCEPT !.rate_limiter = k.rate_limiter]
        /\ tokenBuckets' = k.heap
        /\ gwLast' = ConsumeRecord(k, now)
        /\ gwChecks' = Append(gwChecks, CheckRecord(k, client_id, now))
        /\ UNCHANGED <<gwHandled, gwRegistered, cbVars, sagaVars>>

\* path.startswith(prefix)
StartsWith(path, prefix) ==
    /\ Len(prefix) <= Len(path)
    /\ SubSeq(path, 1, Len(prefix)) = prefix

\* the position in routes of the config under this prefix, 0 when absent
RouteIndex(routes, prefix) ==
    LET ks == {k \in DOMAIN routes : routes[k].path_prefix = prefix}
    IN  IF ks = {} THEN 0 ELSE CHOOSE k \in ks : TRUE

\* a match of the longest prefix the path starts with
MatchRoute_Longest(routes, path) ==
    LET ks == {k \in DOMAIN routes : StartsWith(path, routes[k].path_prefix)}
    IN  IF ks = {} THEN 0
        ELSE CHOOSE k \in ks :
                \A j \in ks : Len(routes[j].path_prefix) <= Len(routes[k].path_prefix)

\* _match_route: the position of the first config, in the order of the dict,
\* whose prefix the path starts with; 0 for None
MatchRoute(routes, path) ==
    LET ks == {k \in DOMAIN routes : StartsWith(path, routes[k].path_prefix)}
    IN  IF ks = {} THEN 0 ELSE CHOOSE k \in ks : \A j \in ks : k <= j

\* register_route(config): a key already in the dict keeps its position
RegisterRoute(config) ==
    /\ LET k == RouteIndex(gateway.routes, config.path_prefix)
       IN  gateway' = [gateway EXCEPT
              !.routes = IF k = 0 THEN Append(@, config) ELSE [@ EXCEPT ![k] = config],
              !.metrics.requests_by_route = SetItem(@, config.path_prefix, 0)]
    /\ gwRegistered' = Append(gwRegistered,
          [config |-> config, handled |-> Len(gwHandled)])
    /\ UNCHANGED <<tokenBuckets, gwLast, gwChecks, gwHandled, cbVars, sagaVars>>

\* a _log that keeps the oldest entries when it truncates
Log_KeepsOldest(request_log, entry) ==
    LET appended == Append(request_log, entry)
    IN  IF Len(appended) > LogLimit
          THEN SubSeq(appended, 1, LogKeep)
          ELSE appended

\* _log(entry)
Log(request_log, entry) ==
    LET appended == Append(request_log, entry)
    IN  IF Len(appended) > LogLimit
          THEN SubSeq(appended, Len(appended) - LogKeep + 1, Len(appended))
          ELSE appended

\* the entry handle_request logs; service is "" on an entry without the key
LogEntry(path, method, client_id, status, service, t) ==
    [timestamp |-> t, path |-> path, method |-> method, client_id |-> client_id,
     status |-> status, service |-> service]

\* the entry of gwHandled for a request answered without a rate-limit check
Unchecked(path, method, client_id, status, k, t) ==
    [path |-> path, method |-> method, client_id |-> client_id, at |-> t,
     status |-> status, headers |-> <<>>, route |-> k, check |-> 0,
     path_prefix |-> IF k = 0 THEN <<>> ELSE gateway.routes[k].path_prefix,
     service_name |-> IF k = 0 THEN "" ELSE gateway.routes[k].service_name]

\* metrics that count a rate-limited request on its route as well
Counted_EveryMatch(g, status, path_prefix) ==
    [g EXCEPT !.metrics.total_requests = @ + 1,
              !.metrics.rate_limited = IF status = 429 THEN @ + 1 ELSE @,
              !.metrics.requests_by_route =
                  IF status \in {200, 429} THEN [@ EXCEPT ![path_prefix] = @ + 1] ELSE @]

\* metrics that count on its route every request that matched one
Counted_Matched(g, status, path_prefix) ==
    [g EXCEPT !.metrics.total_requests = @ + 1,
              !.metrics.rate_limited = IF status = 429 THEN @ + 1 ELSE @,
              !.metrics.requests_by_route =
                  IF status # 404 THEN [@ EXCEPT ![path_prefix] = @ + 1] ELSE @]

\* the gateway with its metrics updated for a request answered with this
\* status through this prefix
Counted(g, status, path_prefix) ==
    [g EXCEPT !.metrics.total_requests = @ + 1,
              !.metrics.rate_limited = IF status = 429 THEN @ + 1 ELSE @,
              !.metrics.requests_by_route =
                  IF status = 200 THEN [@ EXCEPT ![path_prefix] = @ + 1] ELSE @]

\* a handle_request that consults the bucket before it looks at the method
HandleRequest_LimitsFirst(path, method, client_id) ==
    LET k == MatchRoute(gateway.routes, path)
        route == gateway.routes[k]
        rate_config == OrElse(route.rate_limit, DefaultRateLimitConfig)
        c == CheckOf(gateway.rate_limiter, tokenBuckets, client_id, <<rate_config>>, now)
        status == IF ~c.allowed THEN 429
                  ELSE IF method \notin route.allowed_methods THEN 405 ELSE 200
        headers == IF status = 429 THEN c.headers @@ ("Retry-After" :> "60")
                   ELSE IF status = 405 THEN <<>>
                   ELSE c.headers @@ ("X-Service" :> route.service_name)
                                  @@ ("X-Gateway-Latency" :> 0)
    IN  IF k = 0
          THEN /\ gateway' = [Counted(gateway, 404, <<>>) EXCEPT !.request_log =
                                 Log(@, LogEntry(path, method, client_id, 404, "", now))]
               /\ gwHandled' = Append(gwHandled, Unchecked(path, method, client_id, 404, k, now))
               /\ UNCHANGED <<tokenBuckets, gwLast, gwChecks>>
               /\ UNCHANGED <<gwRegistered, cbVars, sagaVars>>
          ELSE /\ tokenBuckets' = c.heap
               /\ gwLast' = ConsumeRecord(c, now)
               /\ gwChecks' = Append(gwChecks, CheckRecord(c, client_id, now))
               /\ gateway' = [Counted(gateway, status, route.path_prefix) EXCEPT
                                 !.rate_limiter = c.rate_limiter,
                                 !.request_log =
                                     Log(@, LogEntry(path, method, client_id, status,
                                                     IF status = 200 THEN route.service_name
                                                                     ELSE "", now))]
               /\ gwHandled' = Append(gwHandled,
                     [path |-> path, method |-> method, client_id |-> client_id, at |-> now,
                      status |-> status, headers |-> headers, route |-> k,
                      check |-> IF status = 405 THEN 0 ELSE Len(gwChecks) + 1,
                      path_prefix |-> route.path_prefix,
                      service_name |-> route.service_name])
               /\ UNCHANGED <<gwRegistered, cbVars, sagaVars>>

\* handle_request(path, method, client_id)
HandleRequest(path, method, client_id) ==
    LET k == MatchRoute(gateway.routes, path)
        route == gateway.routes[k]
        rate_config == OrElse(route.rate_limit, DefaultRateLimitConfig)
        c == CheckOf(gateway.rate_limiter, tokenBuckets, client_id, <<rate_config>>, now)
        answered(status, headers) ==
            [path |-> path, method |-> method, client_id |-> client_id, at |-> now,
             status |-> status, headers |-> headers, route |-> k,
             check |-> Len(gwChecks) + 1,
             path_prefix |-> route.path_prefix, service_name |-> route.service_name]
    IN  IF k = 0
          THEN /\ gateway' = [Counted(gateway, 404, <<>>) EXCEPT !.request_log =
                                 Log(@, LogEntry(path, method, client_id, 404, "", now))]
               /\ gwHandled' = Append(gwHandled, Unchecked(path, method, client_id, 404, k, now))
               /\ UNCHANGED <<tokenBuckets, gwLast, gwChecks>>
               /\ UNCHANGED <<gwRegistered, cbVars, sagaVars>>
        ELSE IF method \notin route.allowed_methods
          THEN /\ gateway' = [Counted(gateway, 405, route.path_prefix) EXCEPT !.request_log =
                                 Log(@, LogEntry(path, method, client_id, 405, "", now))]
               /\ gwHandled' = Append(gwHandled, Unchecked(path, method, client_id, 405, k, now))
               /\ UNCHANGED <<tokenBuckets, gwLast, gwChecks>>
               /\ UNCHANGED <<gwRegistered, cbVars, sagaVars>>
        ELSE /\ tokenBuckets' = c.heap
             /\ gwLast' = ConsumeRecord(c, now)
             /\ gwChecks' = Append(gwChecks, CheckRecord(c, client_id, now))
             /\ IF ~c.allowed
                  THEN /\ gateway' = [Counted(gateway, 429, route.path_prefix) EXCEPT
                             !.rate_limiter = c.rate_limiter,
                             !.request_log =
                                 Log(@, LogEntry(path, method, client_id, 429, "", now))]
                       /\ gwHandled' = Append(gwHandled,
                             answered(429, c.headers @@ ("Retry-After" :> "60")))
                  ELSE /\ gateway' = [Counted(gateway, 200, route.path_prefix) EXCEPT
                             !.rate_limiter = c.rate_limiter,
                             !.request_log =
                                 Log(@, LogEntry(path, method, client_id, 200,
                                                 route.service_name, now))]
                       /\ gwHandled' = Append(gwHandled,
                             answered(200, c.headers @@ ("X-Service" :> route.service_name)
                                                     @@ ("X-Gateway-Latency" :> 0)))
             /\ UNCHANGED <<gwRegistered, cbVars, sagaVars>>

\* a rate limiter just built, the clock at its first value
InitRateLimiter ==
    /\ NoCircuitBreaker
    /\ NoSaga
    /\ NoGateway

\* the configs a caller of check supplies: None or a config of its own
SuppliedConfigs ==
    {<<>>} \cup {<<RateLimitConfig(rpm, burst)>> : rpm \in 0..MaxRefillRate, burst \in 1..MaxBurst}

\* clients call check while time passes
NextRateLimiter ==
    \/ \E client_id \in Clients, config \in SuppliedConfigs :
          /\ Len(gwChecks) < MaxChecks
          /\ Check(client_id, config)
    \/ Tick

SpecRateLimiter == InitRateLimiter /\ [][NextRateLimiter]_vars

\* the checks this client has made, in order
ChecksOf(client_id) == SelectSeq(gwChecks, LAMBDA k : k.client_id = client_id)

\* the names of the three rate-limit headers
RateLimitHeaders == {"X-RateLimit-Limit", "X-RateLimit-Remaining", "X-RateLimit-Reset"}

\* C21: for a client with no bucket and a config with burst_size = B, the
\* first B checks made with no time elapsing are allowed and the (B+1)-th is
\* denied; the checks that follow are denied until the refill, at
\* requests_per_minute / 60 tokens per second, has accrued one whole token.
\* A denied check reports X-RateLimit-Remaining = 0 and every check returns
\* the three rate-limit headers.
C21_BurstThenDenied ==
    \A client_id \in Clients :
       LET ks == ChecksOf(client_id)
       IN  ks # <<>> =>
             LET B == ks[1].cfg.burst_size
                 rpm == ks[1].cfg.requests_per_minute
                 t0 == ks[1].at
             IN  \A j \in DOMAIN ks :
                    /\ (j <= B /\ ks[j].at = t0) => ks[j].allowed
                    /\ (j = B + 1 /\ ks[j].at = t0) => ~ks[j].allowed
                    /\ (/\ j > B + 1
                        /\ ks[B + 1].at = t0
                        /\ \A i \in (B + 1)..(j - 1) : ~ks[i].allowed)
                          => (ks[j].allowed
                                <=> B >= 1 /\ rpm * TickSeconds * (ks[j].at - t0) >= 60)
                    /\ ~ks[j].allowed => ks[j].headers["X-RateLimit-Remaining"] = 0
                    /\ DOMAIN ks[j].headers = RateLimitHeaders

\* a client given burst_size 1 and one request per minute was allowed once,
\* denied at once and again half a minute later, with half a token in the
\* bucket, and allowed when the minute was over
C21_Witness ==
    \E client_id \in Clients :
       LET ks == ChecksOf(client_id)
       IN  /\ Len(ks) = 4
           /\ ks[1].cfg = RateLimitConfig(1, 1)
           /\ ks[1].allowed /\ ~ks[2].allowed /\ ~ks[3].allowed /\ ks[4].allowed
           /\ ks[2].at = ks[1].at
           /\ ks[3].at = ks[1].at + 1
           /\ ks[4].at = ks[1].at + 2
           /\ ks[3].headers["X-RateLimit-Remaining"] = 0

\* the rate_limit a route is registered with: None or one request per
\* minute with a burst of one
RouteRateLimits == {<<>>, <<RateLimitConfig(1, 1)>>}

\* the allowed_methods a route is registered with
AllowedMethodSets == {{"GET"}, Methods}

\* the service a prefix is registered for in this scenario
ServiceOf(path_prefix) == IF path_prefix = <<"a">> THEN "svc_a" ELSE "svc_b"

\* a gateway just built, the clock at its first value
InitApiGateway ==
    /\ NoCircuitBreaker
    /\ NoSaga
    /\ NoGateway

\* routes are registered and requests handled, in any order
NextApiGateway ==
    \/ \E path_prefix \in PathPrefixes,
          rate_limit \in RouteRateLimits, allowed_methods \in AllowedMethodSets :
          /\ Len(gwRegistered) < MaxRegistrations
          /\ RegisterRoute(RouteConfig(path_prefix, ServiceOf(path_prefix), rate_limit,
                                       allowed_methods))
    \/ \E path \in RequestPaths, method \in Methods, client_id \in Clients :
          /\ Len(gwHandled) < MaxRequests
          /\ HandleRequest(path, method, client_id)

SpecApiGateway == InitApiGateway /\ [][NextApiGateway]_vars

\* the register_route calls made before the r-th request was handled
RegisteredBefore(r) == SelectSeq(gwRegistered, LAMBDA g : g.handled < r)

\* the config last registered under this prefix before the r-th request
ConfigAt(r, path_prefix) ==
    LET regs == RegisteredBefore(r)
        ks == {k \in DOMAIN regs : regs[k].config.path_prefix = path_prefix}
    IN  regs[CHOOSE k \in ks : \A j \in ks : j <= k].config

\* a prefix registered before the r-th request matches its path
SomeRouteMatches(r) ==
    \E k \in DOMAIN RegisteredBefore(r) :
       StartsWith(gwHandled[r].path, RegisteredBefore(r)[k].config.path_prefix)

\* C22: handle_request answers 404 when no registered prefix matches the
\* path; otherwise 405 when the method is not in the allowed_methods of the
\* matched route; otherwise 429, with Retry-After 60 and the rate-limit
\* headers, when the bucket of the client denies; otherwise 200 with
\* X-Service and X-Gateway-Latency.  The bucket is not consulted for a 404
\* or a 405.
C22_StatusPrecedence ==
    \A r \in DOMAIN gwHandled :
       LET h == gwHandled[r]
       IN  IF ~SomeRouteMatches(r)
             THEN h.status = 404 /\ h.check = 0
           ELSE IF h.method \notin ConfigAt(r, h.path_prefix).allowed_methods
             THEN h.status = 405 /\ h.check = 0
           ELSE /\ h.check \in DOMAIN gwChecks
                /\ gwChecks[h.check].client_id = h.client_id
                /\ IF ~gwChecks[h.check].allowed
                     THEN /\ h.status = 429
                          /\ DOMAIN h.headers = RateLimitHeaders \cup {"Retry-After"}
                          /\ h.headers["Retry-After"] = "60"
                     ELSE /\ h.status = 200
                          /\ DOMAIN h.headers
                                = RateLimitHeaders \cup {"X-Service", "X-Gateway-Latency"}
                          /\ h.headers["X-Service"]
                                = ConfigAt(r, h.path_prefix).service_name

\* a client emptied its bucket with a GET on a route that allows GET only,
\* and its POST on the same route was answered 405, not 429
C22_Witness ==
    /\ Len(gwHandled) = 2
    /\ gwHandled[1].client_id = gwHandled[2].client_id
    /\ gwHandled[1].status = 200
    /\ gwHandled[1].headers["X-RateLimit-Remaining"] = 0
    /\ gwHandled[2].path_prefix = gwHandled[1].path_prefix
    /\ gwHandled[2].method = "POST"
    /\ gwHandled[2].status = 405
    /\ Len(gwRegistered) = 1

\* route registrations made in the routing scenario
MaxRoutingRegistrations == 3
\* handle_request calls made in the routing scenario
MaxRoutingRequests == 2

\* three prefixes, each a prefix of the next
RoutingPrefixes == PathPrefixes \cup {<<"a", "b", "c">>}

RoutingPaths == RequestPaths \cup {<<"a", "b", "c">>}

\* a gateway just built
InitRouting ==
    /\ NoCircuitBreaker
    /\ NoSaga
    /\ NoGateway

\* routes with overlapping prefixes are registered, with the default methods
\* and no rate limit of their own, and GET requests are handled
NextRouting ==
    \/ \E path_prefix \in RoutingPrefixes, service_name \in Services :
          /\ Len(gwRegistered) < MaxRoutingRegistrations
          /\ RegisterRoute(RouteConfig(path_prefix, service_name, <<>>, Methods))
    \/ \E path \in RoutingPaths, client_id \in Clients :
          /\ Len(gwHandled) < MaxRoutingRequests
          /\ HandleRequest(path, "GET", client_id)

SpecRouting == InitRouting /\ [][NextRouting]_vars

\* the position, among the register_route calls made before the r-th
\* request, of the first one made with this prefix
FirstRegistration(r, path_prefix) ==
    LET regs == RegisteredBefore(r)
        ks == {k \in DOMAIN regs : regs[k].config.path_prefix = path_prefix}
    IN  CHOOSE k \in ks : \A j \in ks : k <= j

\* C23: of the registered prefixes that are a prefix of the request path,
\* the one registered first is matched, whatever the lengths of the
\* prefixes; the request is routed with the config last registered under
\* that prefix.
C23_FirstRegisteredWins ==
    \A r \in DOMAIN gwHandled :
       LET h == gwHandled[r]
           regs == RegisteredBefore(r)
       IN  SomeRouteMatches(r) =>
             /\ StartsWith(h.path, h.path_prefix)
             /\ \E k \in DOMAIN regs : regs[k].config.path_prefix = h.path_prefix
             /\ \A k \in DOMAIN regs :
                   StartsWith(h.path, regs[k].config.path_prefix)
                      => FirstRegistration(r, h.path_prefix) <= k
             /\ h.status = 200
                   => h.headers["X-Service"] = ConfigAt(r, h.path_prefix).service_name

\* the prefix "a" was registered first and "ab" second, for another service;
\* a request for "ab" went to the service of "a"
C23_Witness ==
    /\ Len(gwRegistered) >= 2
    /\ gwRegistered[1].config.path_prefix = <<"a">>
    /\ gwRegistered[2].config.path_prefix = <<"a", "b">>
    /\ gwRegistered[2].config.service_name # gwRegistered[1].config.service_name
    /\ \E r \in DOMAIN gwHandled :
          /\ gwRegistered[2].handled < r
          /\ gwHandled[r].path = <<"a", "b">>
          /\ gwHandled[r].path_prefix = <<"a">>
          /\ gwHandled[r].headers["X-Service"] = gwRegistered[1].config.service_name

\* C24: every request that reaches the rate-limit stage is decided on a
\* bucket whose capacity is the burst_size and whose refill rate is the
\* requests_per_minute / 60 of the matched route's RateLimitConfig, or of the
\* default config when the route has none, whichever routes the client has
\* requested before.
C24_RouteConfigDecides ==
    \A r \in DOMAIN gwHandled :
       LET h == gwHandled[r]
       IN  h.check # 0 =>
             LET cfg == OrElse(ConfigAt(r, h.path_prefix).rate_limit, DefaultRateLimitConfig)
             IN  /\ gwChecks[h.check].capacity = cfg.burst_size * TokenUnit
                 /\ gwChecks[h.check].refill_rate = RefillRate(cfg.requests_per_minute)

\* a client spent the burst of one of the route "ab"; its first request to
\* the route "a", which has no rate limit of its own, was answered 429 on
\* the bucket of capacity one
C24_SharedBucket ==
    /\ Len(gwHandled) = 2
    /\ Len(gwRegistered) = 2
    /\ gwRegistered[2].handled = 0
    /\ gwHandled[1].client_id = gwHandled[2].client_id
    /\ gwHandled[1].path_prefix = <<"a", "b">>
    /\ gwHandled[1].status = 200
    /\ gwHandled[2].path_prefix = <<"a">>
    /\ ConfigAt(2, <<"a">>).rate_limit = <<>>
    /\ gwHandled[2].status = 429
    /\ gwChecks[gwHandled[2].check].capacity = TokenUnit

\* the route of the request log scenario: GET only, a burst of one
LoggedRoute == RouteConfig(<<"a">>, "svc_a", <<RateLimitConfig(1, 1)>>, {"GET"})

\* the paths requested in the request log scenario: one under the route,
\* one under no route
LoggedPaths == {<<"a", "b">>, <<"c">>}

\* a gateway just built
InitRequestLog ==
    /\ NoCircuitBreaker
    /\ NoSaga
    /\ NoGateway

\* the route is registered or not, then one client sends requests of every
\* outcome, more than the log holds
NextRequestLog ==
    \/ /\ gwRegistered = <<>>
       /\ gwHandled = <<>>
       /\ RegisterRoute(LoggedRoute)
    \/ \E path \in LoggedPaths, method \in Methods :
          /\ Len(gwHandled) < MaxLogRequests
          /\ HandleRequest(path, method, "client_1")

SpecRequestLog == InitRequestLog /\ [][NextRequestLog]_vars

\* the entries logged for all the requests handled, in order
AllLogged ==
    [r \in DOMAIN gwHandled |->
        LogEntry(gwHandled[r].path, gwHandled[r].method, gwHandled[r].client_id,
                 gwHandled[r].status,
                 IF gwHandled[r].status = 200 THEN gwHandled[r].service_name ELSE "",
                 gwHandled[r].at)]

\* len(request_log) after n requests, each appending one entry
RECURSIVE LogLength(_)
LogLength(n) ==
    IF n = 0 THEN 0
    ELSE IF LogLength(n - 1) + 1 > LogLimit THEN LogKeep ELSE LogLength(n - 1) + 1

\* C25: every handle_request call, whatever its status, appends one entry
\* to request_log; the log never holds more than the limit (1000 in the
\* code, LogLimit here), the append that would exceed it leaves the most
\* recent half of the limit (500, LogKeep), and the log is at all times the
\* last entries, in order, of the sequence of all requests handled.
C25_BoundedLog ==
    LET n == Len(gwHandled)
        len == Len(gateway.request_log)
    IN  /\ len <= LogLimit
        /\ len = LogLength(n)
        /\ gateway.request_log = SubSeq(AllLogged, n - len + 1, n)
        /\ \A r \in DOMAIN gwHandled : gwHandled[r].status \in {200, 404, 405, 429}

\* the log was cut a second time: after twice the limit of requests it
\* holds the last two, a 404 after a 429
C25_Witness ==
    /\ Len(gwHandled) = MaxLogRequests
    /\ Len(gateway.request_log) = LogKeep
    /\ gateway.request_log[1].status = 429
    /\ gateway.request_log[2].status = 404
    /\ gwHandled[MaxLogRequests - 1].status = 429
    /\ gwHandled[MaxLogRequests].status = 404
    /\ \E r \in DOMAIN gwHandled : gwHandled[r].status = 200
    /\ \E r \in DOMAIN gwHandled : gwHandled[r].status = 405

\* the number of requests answered with this status
Answered(status) == Cardinality({r \in DOMAIN gwHandled : gwHandled[r].status = status})

\* the number of requests answered 200 through this prefix
Routed(path_prefix) ==
    Cardinality({r \in DOMAIN gwHandled : /\ gwHandled[r].status = 200
                                          /\ gwHandled[r].path_prefix = path_prefix})

\* the sum of the counters of these prefixes
RECURSIVE SumByRoute(_, _)
SumByRoute(requests_by_route, prefixes) ==
    IF prefixes = {} THEN 0
    ELSE LET p == CHOOSE p \in prefixes : TRUE
         IN  requests_by_route[p] + SumByRoute(requests_by_route, prefixes \ {p})

\* every route was registered before the first request was handled
RegisteredBeforehand == \A k \in DOMAIN gwRegistered : gwRegistered[k].handled = 0

\* C26: on a gateway whose routes were all registered before the first
\* request, total_requests is the number of handle_request calls,
\* rate_limited the number of 429 responses and requests_by_route[p] the
\* number of 200 responses routed through prefix p, so that total_requests =
\* (number of 404) + (number of 405) + rate_limited + the sum of the
\* per-route counters.
C26_MetricsCount ==
    LET metrics == gateway.metrics
    IN  RegisteredBeforehand =>
          /\ metrics.total_requests = Len(gwHandled)
          /\ metrics.rate_limited = Answered(429)
          /\ DOMAIN metrics.requests_by_route
                = {gwRegistered[k].config.path_prefix : k \in DOMAIN gwRegistered}
          /\ \A p \in DOMAIN metrics.requests_by_route :
                metrics.requests_by_route[p] = Routed(p)
          /\ metrics.total_requests
                = Answered(404) + Answered(405) + metrics.rate_limited
                     + SumByRoute(metrics.requests_by_route, DOMAIN metrics.requests_by_route)

\* with two routes registered beforehand, one request was routed through
\* each and a third was rate limited
C26_Witness ==
    /\ RegisteredBeforehand
    /\ Len(gwHandled) = 3
    /\ gateway.metrics.total_requests = 3
    /\ gateway.metrics.rate_limited = 1
    /\ DOMAIN gateway.metrics.requests_by_route = PathPrefixes
    /\ \A p \in PathPrefixes : gateway.metrics.requests_by_route[p] = 1

----------------------------------------------------------------------------
(* Further properties of the circuit breaker *)

\* C27: only calls admitted during a HALF_OPEN episode count toward closing
\* it.  In every HALF_OPEN state success_count <= half_open_calls, and a
\* recorded success closes the breaker only when at least success_threshold
\* calls were admitted in the episode.
C27_TrialSuccessesOnly ==
    /\ \A i \in Ids :
          breakers[i].state = HALF_OPEN
             => breakers[i].success_count <= breakers[i].half_open_calls
    /\ (RecordedSuccess /\ Old.state = HALF_OPEN /\ Cur.state = CLOSED)
          => Old.half_open_calls >= Cfg.success_threshold

\* the events of this type in the event history of b
EventsOfType(b, type) == SelectSeq(b.event_history, LAMBDA e : e.type = type)

\* C28: every rejected admission, async or sync, adds one to rejected_calls
\* and appends one call_rejected event, so the number of call_rejected
\* events in event_history equals stats.rejected_calls.
C28_RejectionsLogged ==
    /\ \A i \in Ids :
          Len(EventsOfType(breakers[i], "call_rejected")) = breakers[i].stats.rejected_calls
    /\ Rejected =>
          /\ Cur.stats.rejected_calls = Old.stats.rejected_calls + 1
          /\ Len(EventsOfType(Cur, "call_rejected"))
                = Len(EventsOfType(Old, "call_rejected")) + 1

\* the calls admitted on breaker i that have not recorded their outcome
InFlight(i) == {c \in Callers : calls[c].id = i /\ calls[c].pc \in {"running", "exiting"}}

\* C30: whatever the interleaving of protected calls, force_open(),
\* force_close() and reset(), total_calls = successful_calls + failed_calls
\* + rejected_calls + the number of admitted calls still in flight, so that
\* the three outcome counters never add up to more than total_calls.
C30_CallAccounting ==
    \A i \in Ids :
       LET s == breakers[i].stats
       IN  /\ s.total_calls = s.successful_calls + s.failed_calls + s.rejected_calls
                                 + Cardinality(InFlight(i))
           /\ s.successful_calls + s.failed_calls + s.rejected_calls <= s.total_calls

\* one breaker built with an on_state_change callback, which may raise each
\* time it is invoked; success_threshold and half_open_max_calls are 1
InitCallback ==
    /\ \E ft \in Thresholds, rt \in Timeouts :
          breakers = <<NewBreaker("default", ft, 1, rt, 1, TRUE)>>
    /\ registry = <<>>
    /\ calls = [c \in Callers |-> IdleCall]
    /\ now = 1
    /\ admin = 0
    /\ attempts = 0
    /\ hist = <<NoHist>>
    /\ last = [op |-> "init", id |-> 0, caller |-> 0, args |-> <<>>, error |-> NoError,
               out |-> "none",
               pre |-> [breakers |-> <<>>, registry |-> <<>>]]
    /\ NoSaga
    /\ NoGateway

\* the breaker used by one sequential client, through `async with` and
\* through `with`, read, forced and reset as time passes
NextCallback ==
    \/ \E i \in Ids : AcquireEnter(1, i)
    \/ AEnter(1)
    \/ AcquireExit(1)
    \/ \E ok \in BOOLEAN : AExit(1, ok)
    \/ \E i \in Ids : Enter(1, i)
    \/ \E ok \in BOOLEAN : Exit(1, ok)
    \/ \E i \in Ids : ReadState(i)
    \/ \E i \in Ids : GetStatus(i)
    \/ \E i \in Ids : Reset(i)
    \/ \E i \in Ids : ForceOpen(i)
    \/ \E i \in Ids : ForceClose(i)
    \/ Tick

SpecCallback == InitCallback /\ [][NextCallback]_vars

\* the elements operation `last` has appended to a list that was old
Appended(old, new) == SubSeq(new, Len(old) + 1, Len(new))

\* the state_change events of the event history of b, without their type
StateChangeEvents(b) ==
    LET evs == EventsOfType(b, "state_change")
    IN  [k \in DOMAIN evs |->
            [from |-> evs[k].from, to |-> evs[k].to,
             failure_count |-> evs[k].failure_count,
             success_count |-> evs[k].success_count]]

C31_StateInvariants ==
    \A i \in Ids :
      LET b == breakers[i]
      IN  /\ b.config.failure_threshold >= 1 /\ b.config.success_threshold >= 1
          /\ b.state \in {CLOSED, OPEN, HALF_OPEN}
          /\ b.state = CLOSED => b.failure_count < b.config.failure_threshold
          /\ b.state = HALF_OPEN =>
                /\ b.success_count < b.config.success_threshold
                /\ b.half_open_calls <= b.config.half_open_max_calls
          /\ b.state = OPEN =>
                /\ Truthy(b.last_failure_time)
                /\ \A t \in b.last_failure_time..MaxTime :
                      t - b.last_failure_time >= b.config.reset_timeout
                         => CheckStateTransition(b, t, FALSE).state = HALF_OPEN

\* force_open() has opened a breaker that never recorded a failure, and
\* stamped last_failure_time with the time of the call
C31_Witness ==
    /\ last.op = "force_open"
    /\ Old.state = CLOSED
    /\ Old.last_failure_time = None
    /\ Old.stats.failed_calls = 0
    /\ Cur.state = OPEN
    /\ Cur.last_failure_time = now

\* every admitted call records its outcome in the end: the bodies under the
\* lock run to their end, asyncio.Lock wakes its waiters in turn, and the
\* protected functions return or raise
OutcomesRecorded ==
    \A c \in Callers :
       /\ WF_vars(AEnter(c))
       /\ SF_vars(AcquireExit(c))
       /\ WF_vars(\E ok \in BOOLEAN : AExit(c, ok))
       /\ WF_vars(\E ok \in BOOLEAN : Exit(c, ok))

\* one breaker that opens at the first failure and waits one tick, for each
\* valid pair of success_threshold and half_open_max_calls
InitOutcomes ==
    /\ \E st \in Thresholds, hom \in Thresholds :
          /\ ~InitRaises(st, hom)
          /\ breakers = <<NewBreaker("default", 1, st, 1, hom, FALSE)>>
    /\ registry = <<>>
    /\ calls = [c \in Callers |-> IdleCall]
    /\ now = 1
    /\ admin = 0
    /\ attempts = 0
    /\ hist = <<NoHist>>
    /\ last = [op |-> "init", id |-> 0, caller |-> 0, args |-> <<>>, error |-> NoError,
               out |-> "none",
               pre |-> [breakers |-> <<>>, registry |-> <<>>]]
    /\ NoSaga
    /\ NoGateway

\* protected calls, async and sync, and administrative calls, while time
\* passes
NextOutcomes ==
    \/ \E c \in Callers, i \in Ids : AcquireEnter(c, i)
    \/ \E c \in Callers : AEnter(c)
    \/ \E c \in Callers : AcquireExit(c)
    \/ \E c \in Callers, ok \in BOOLEAN : AExit(c, ok)
    \/ \E c \in Callers, i \in Ids : Enter(c, i)
    \/ \E c \in Callers, ok \in BOOLEAN : Exit(c, ok)
    \/ \E i \in Ids : Reset(i)
    \/ \E i \in Ids : ForceOpen(i)
    \/ \E i \in Ids : ForceClose(i)
    \/ Tick

\* concurrent callers of one breaker, each of which leaves in the end
SpecOutcomes == InitOutcomes /\ [][NextOutcomes]_vars /\ OutcomesRecorded

\* HALF_OPEN with as many calls admitted in the episode as it allows
Saturated(b) == b.state = HALF_OPEN /\ b.half_open_calls = b.config.half_open_max_calls

\* C32: a HALF_OPEN breaker does not stay saturated.  No reachable state is
\* HALF_OPEN with half_open_calls = half_open_max_calls and no call in
\* flight, and when every admitted call records its outcome in the end, a
\* saturated HALF_OPEN breaker leaves HALF_OPEN in the end.
C32_SaturationEnds ==
    /\ [](Saturated(breakers[1]) => InFlight(1) # {})
    /\ (Saturated(breakers[1]) ~> breakers[1].state # HALF_OPEN)

\* a breaker that wants two successes is saturated with one success counted
\* and the other trial call still running
C32_Witness ==
    /\ Saturated(breakers[1])
    /\ breakers[1].config.half_open_max_calls = 2
    /\ breakers[1].config.success_threshold = 2
    /\ breakers[1].success_count = 1
    /\ Cardinality(InFlight(1)) = 1

\* C33: force_open() leaves the breaker OPEN, whatever its state, with
\* failure_count and failed_calls as they were, and restarts the reset
\* timeout: an admission is rejected while less than reset_timeout has
\* elapsed since the call, and moves the breaker to HALF_OPEN afterwards.
\* force_close() leaves it CLOSED with failure_count = 0, so that the next
\* admission is admitted.
C33_ForcedStates ==
    /\ last.op = "force_open" =>
          /\ Cur.state = OPEN
          /\ Cur.failure_count = Old.failure_count
          /\ Cur.stats.failed_calls = Old.stats.failed_calls
          /\ Cur.last_failure_time = now
          /\ \A t \in now..(now + MaxTimeout) :
                IF t - now < Cfg.reset_timeout
                  THEN /\ EnterRejects(Cur, t, FALSE)
                       /\ EnterBody(Cur, t, FALSE, TRUE).state = OPEN
                  ELSE /\ ~EnterRejects(Cur, t, FALSE)
                       /\ EnterBody(Cur, t, FALSE, TRUE).state = HALF_OPEN
    /\ last.op = "force_close" =>
          /\ Cur.state = CLOSED
          /\ Cur.failure_count = 0
          /\ \A t \in now..(now + MaxTimeout) :
                /\ ~EnterRejects(Cur, t, FALSE)
                /\ EnterBody(Cur, t, FALSE, TRUE).state = CLOSED

\* force_open() has reopened a HALF_OPEN breaker whose last failure is older
\* than the call, and left its failure_count where it was
C33_Witness ==
    /\ last.op = "force_open"
    /\ Old.state = HALF_OPEN
    /\ Old.failure_count >= 1
    /\ Old.last_failure_time < now
    /\ Cur.state = OPEN
    /\ Cur.failure_count = Old.failure_count

\* C34: the lock of a breaker is held only by a task inside the body of
\* __aenter__ or __aexit__, never by a task whose protected function runs
\* and never after a rejection.  Whatever calls are in flight, the holder
\* can always finish its body and free the lock, so no admission and no
\* outcome recording waits for ever; and in CLOSED several calls are in
\* flight at once.
C34_LockScope ==
    /\ \A i \in Ids :
          LET c == breakers[i].lock
          IN  c # 0 =>
                /\ c \in Callers
                /\ calls[c].id = i
                /\ calls[c].mode = "async"
                /\ calls[c].pc \in {"entering", "exiting"}
                /\ calls[c].pc = "entering" => ENABLED AEnter(c)
                /\ calls[c].pc = "exiting" => ENABLED (\E ok \in BOOLEAN : AExit(c, ok))
    /\ \A c \in Callers :
          /\ calls[c].pc \in {"entering", "exiting"} => breakers[calls[c].id].lock = c
          /\ calls[c].pc \in {"idle", "running"} => \A i \in Ids : breakers[i].lock # c
    /\ last.op \in {"__aenter__", "__aexit__"} => Cur.lock = 0
    /\ (Admitted /\ Old.state = CLOSED) => Cur.state = CLOSED

\* a third call has been admitted by a CLOSED breaker while two others were
\* running; the lock is free
C34_Witness ==
    /\ Admitted
    /\ last.op = "__aenter__"
    /\ Cur.state = CLOSED
    /\ Cardinality(InFlight(last.id)) = 3
    /\ \A c \in Callers : calls[c].pc = "running" /\ calls[c].mode = "async"
    /\ LockFree

(***************************************************************************)
(* Further properties of the saga orchestrator.                            *)
(***************************************************************************)

\* the entries of a history that are invocations, not broadcasts
Invocations == {"action", "action_raised", "action_timed_out", "compensate"}

\* the events broadcast during the execute() call of task t, in order
Broadcast(t) == SelectSeq(sagaLog[t], LAMBDA e : e.type \notin Invocations)

\* saga_started, then step_started and step_completed of the first k steps
RECURSIVE Forward(_, _)
Forward(names, k) ==
    IF k = 0 THEN <<Event("saga_started", NoName)>>
    ELSE Forward(names, k - 1)
            \o <<Event("step_started", names[k]), Event("step_completed", names[k])>>

\* ev is an initial segment of: compensation_started; for each step of todo
\* compensation_step_started followed by one of compensation_step_completed
\* and compensation_step_failed, for that step; compensation_completed
SweepEvents(ev, todo) ==
    /\ Len(ev) <= 2 * Len(todo) + 2
    /\ \A p \in DOMAIN ev :
          IF p = 1 THEN ev[p] = Event("compensation_started", NoName)
          ELSE IF p = 2 * Len(todo) + 2
                 THEN ev[p] = Event("compensation_completed", NoName)
          ELSE IF p % 2 = 0
                 THEN ev[p] = Event("compensation_step_started", todo[p \div 2])
          ELSE /\ ev[p].type \in {"compensation_step_completed", "compensation_step_failed"}
               /\ ev[p].step = todo[p \div 2]

\* C35: the events broadcast for one execution are saga_started, then
\* step_started and step_completed for each step in registration order, and
\* then either saga_completed, the last event, or, at the first step that
\* fails (it has a step_started and no step_completed), saga_failed,
\* compensation_started, for each compensated step compensation_step_started
\* followed by exactly one of compensation_step_completed and
\* compensation_step_failed, and compensation_completed, the last event.  An
\* execution that has returned has broadcast exactly one of saga_completed
\* and compensation_completed, and none broadcasts more than one of them.
C35_EventOrder ==
    \A t \in Started :
       LET ev == Broadcast(t)
           names == StepNamesOf(t)
           n == Len(ExecutionOf(t).steps_completed)
           ended == Cardinality({i \in DOMAIN ev :
                       ev[i].type \in {"saga_completed", "compensation_completed"}})
       IN  /\ \/ ev = Forward(names, n)
              \/ /\ n < Len(names)
                 /\ ev = Forward(names, n) \o <<Event("step_started", names[n + 1])>>
              \/ /\ n = Len(names)
                 /\ ev = Forward(names, n) \o <<Event("saga_completed", NoName)>>
              \/ /\ n < Len(names)
                 /\ Len(ev) >= 2 * n + 3
                 /\ SubSeq(ev, 1, 2 * n + 3)
                       = Forward(names, n) \o <<Event("step_started", names[n + 1]),
                                                 Event("saga_failed", names[n + 1])>>
                 /\ SweepEvents(SubSeq(ev, 2 * n + 4, Len(ev)), ExpectedCompensations(t))
           /\ ended <= 1
           /\ t \in Returned => ended = 1
           /\ t \in Returned =>
                 ev[Len(ev)].type \in {"saga_completed", "compensation_completed"}

\* the third step failed, the compensation of the second raised and the one
\* of the first returned: the twelve events of that execution
C35_Witness ==
    \E t \in Returned :
       Broadcast(t) =
          << Event("saga_started", NoName),
             Event("step_started", "step_1"), Event("step_completed", "step_1"),
             Event("step_started", "step_2"), Event("step_completed", "step_2"),
             Event("step_started", "step_3"), Event("saga_failed", "step_3"),
             Event("compensation_started", NoName),
             Event("compensation_step_started", "step_2"),
             Event("compensation_step_failed", "step_2"),
             Event("compensation_step_started", "step_1"),
             Event("compensation_step_completed", "step_1"),
             Event("compensation_completed", NoName) >>

\* the moves of the status of a SagaExecution
StatusMoves ==
    {<<RUNNING, COMPLETED>>, <<RUNNING, FAILED>>, <<FAILED, COMPENSATING>>,
     <<COMPENSATING, COMPENSATED>>, <<COMPENSATING, FAILED>>}

\* what holds of the record of every execute() call at every moment
RecordShape ==
    \A t \in Started :
       LET x == ExecutionOf(t)
       IN  /\ x.status \in {RUNNING, COMPLETED, FAILED, COMPENSATING, COMPENSATED}
           /\ IsPrefix(x.steps_completed, StepNamesOf(t))
           /\ \A i \in DOMAIN x.steps_compensated :
                 /\ \E j \in DOMAIN x.steps_completed :
                       x.steps_completed[j] = x.steps_compensated[i]
                 /\ \A j \in DOMAIN x.steps_compensated :
                       x.steps_compensated[j] = x.steps_compensated[i] => j = i

\* what holds of every step of a record
RecordStep ==
    /\ \A e \in DOMAIN sagaExecutions' \ DOMAIN sagaExecutions :
          sagaExecutions'[e].status = RUNNING
    /\ \A e \in DOMAIN sagaExecutions :
          LET x == sagaExecutions[e]
              y == sagaExecutions'[e]
          IN  /\ e \in DOMAIN sagaExecutions'
              /\ x.status # y.status => <<x.status, y.status>> \in StatusMoves
              /\ x.completed_at # None =>
                    /\ y.status = x.status
                    /\ y.steps_completed = x.steps_completed
                    /\ y.steps_compensated = x.steps_compensated
                    /\ y.completed_at = x.completed_at

\* C36: the status of a SagaExecution record only moves RUNNING -> COMPLETED
\* or RUNNING -> FAILED -> COMPENSATING -> COMPENSATED or FAILED.  A record
\* is created RUNNING and is never PENDING; once completed_at is set its
\* status, steps_completed and steps_compensated do not change; at every
\* moment steps_completed is a prefix of the registered step names and
\* steps_compensated holds only names of steps_completed, each at most once.
C36_StatusMoves == []RecordShape /\ [][RecordStep]_vars

\* a record that went RUNNING, FAILED, COMPENSATING and back to FAILED: the
\* compensation of the second step raised, the one of the first returned
C36_Witness ==
    \E t \in Returned :
       /\ ExecutionOf(t).status = FAILED
       /\ ExecutionOf(t).completed_at # None
       /\ ExecutionOf(t).steps_completed = <<"step_1", "step_2">>
       /\ ExecutionOf(t).steps_compensated = <<"step_1">>
       /\ Entries(t, "compensation_started") # {}

\* a step of task t has failed and nothing is there to compensate: the step
\* was the first one, or no completed step has a compensation
EmptySweep(t) ==
    /\ Entries(t, "saga_failed") # {}
    /\ \/ sagaTasks[t].failed_step_name = StepNamesOf(t)[1]
       \/ \A i \in DOMAIN ExecutionOf(t).steps_completed :
             StepsOf(sagaTasks[t])[i].compensate = NoName

\* C37: when the step that fails is the first step, or no completed step has
\* a compensation, execute() invokes no compensation (and broadcasts no
\* compensation_step_started), returns status COMPENSATED with an empty
\* compensated_steps, and leaves the record COMPENSATED with nothing in
\* steps_compensated.
C37_EmptySweep ==
    \A t \in Started :
       EmptySweep(t) =>
          /\ Entries(t, "compensate") = {}
          /\ Entries(t, "compensation_step_started") = {}
          /\ ExecutionOf(t).steps_compensated = <<>>
          /\ ExecutionOf(t).status \in {FAILED, COMPENSATING, COMPENSATED}
          /\ t \in Returned =>
                /\ sagaTasks[t].result.status = "COMPENSATED"
                /\ "compensated_steps" \in sagaTasks[t].result.keys
                /\ sagaTasks[t].result.compensated_steps = <<>>
                /\ ExecutionOf(t).status = COMPENSATED
                /\ Entries(t, "compensation_completed") # {}

\* the third step failed after two steps without a compensation were completed
C37_Witness ==
    \E t \in Returned :
       /\ EmptySweep(t)
       /\ sagaTasks[t].result.failed_step = "step_3"
       /\ ExecutionOf(t).steps_completed = <<"step_1", "step_2">>
       /\ StepsOf(sagaTasks[t])[3].compensate # NoName
       /\ sagaTasks[t].result.status = "COMPENSATED"

(***************************************************************************)
(* Further properties of the gateway.                                      *)
(***************************************************************************)

\* RateLimiter.check calls made in the two-client scenario, those made by
\* handle_request included
MaxClientChecks == 3

\* a gateway just built, the clock at its first value
InitClients ==
    /\ NoCircuitBreaker
    /\ NoSaga
    /\ NoGateway

\* one route is registered; then two clients send requests through the
\* gateway, and all along they call the rate limiter directly and time passes
NextClients ==
    \/ \E rate_limit \in RouteRateLimits :
          /\ gwRegistered = <<>>
          /\ RegisterRoute(RouteConfig(<<"a">>, "svc_a", rate_limit, Methods))
    \/ \E client_id \in Clients :
          /\ gwRegistered # <<>>
          /\ Len(gwChecks) < MaxClientChecks
          /\ HandleRequest(<<"a", "b">>, "GET", client_id)
    \/ \E client_id \in Clients, config \in RouteRateLimits :
          /\ Len(gwChecks) < MaxClientChecks
          /\ Check(client_id, config)
    \/ Tick

SpecClients == InitClients /\ [][NextClients]_vars

\* what the checks ks, all of one client, return when they are the only
\* checks a new RateLimiter ever sees, from the j-th on
RECURSIVE Replay(_, _, _, _)
Replay(ks, j, rl, heap) ==
    IF j > Len(ks) THEN <<>>
    ELSE LET k == CheckOf(rl, heap, ks[j].client_id, <<ks[j].cfg>>, ks[j].at)
         IN  <<[created |-> k.created, allowed |-> k.allowed, headers |-> k.headers]>>
                \o Replay(ks, j + 1, k.rate_limiter, k.heap)

\* every check of a client returned what it returns without the other clients
Isolated ==
    /\ \A client_id \in Clients :
          LET ks == ChecksOf(client_id)
              alone == Replay(ks, 1, RateLimiter, <<>>)
          IN  \A j \in DOMAIN ks :
                 /\ ks[j].created = alone[j].created
                 /\ ks[j].allowed = alone[j].allowed
                 /\ ks[j].headers = alone[j].headers
    /\ \A r \in DOMAIN gwHandled :
          gwHandled[r].status = 429 =>
             /\ gwChecks[gwHandled[r].check].client_id = gwHandled[r].client_id
             /\ ~gwChecks[gwHandled[r].check].allowed

\* a step that makes a check leaves the buckets of the other clients alone
OthersUntouched ==
    Len(gwChecks') > Len(gwChecks) =>
       \A b \in Clients \ {gwChecks'[Len(gwChecks')].client_id} :
          LET old == gateway.rate_limiter.buckets
              new == gateway'.rate_limiter.buckets
          IN  /\ b \in DOMAIN new <=> b \in DOMAIN old
              /\ b \in DOMAIN old =>
                    /\ new[b] = old[b]
                    /\ tokenBuckets'[new[b]] = tokenBuckets[old[b]]

\* C38: the requests of one client never change the admission of another.
\* A check made for client A, directly or by handle_request, leaves the
\* bucket of every other client B as it was: not created, not consumed from,
\* not refilled.  Every check of B returns what it would return had no other
\* client ever made one, so a 429 answered to B comes from the bucket of B.
C38_ClientIsolation == []Isolated /\ [][OthersUntouched]_vars

\* client_1 was answered 200 and then 429; client_2, at the same moment, 200
C38_Witness ==
    /\ Len(gwHandled) = 3
    /\ gwHandled[1].client_id = "client_1" /\ gwHandled[1].status = 200
    /\ gwHandled[2].client_id = "client_1" /\ gwHandled[2].status = 429
    /\ gwHandled[3].client_id = "client_2" /\ gwHandled[3].status = 200
    /\ gwHandled[3].at = gwHandled[2].at
    /\ tokenBuckets[gateway.rate_limiter.buckets["client_1"]].tokens = 0

\* a gateway just built, the clock at its first value
InitUnrouted ==
    /\ NoCircuitBreaker
    /\ NoSaga
    /\ NoGateway

\* one route that allows GET alone is registered; then requests that match
\* it or not, with a method it allows or not, are handled while time passes
NextUnrouted ==
    \/ \E rate_limit \in RouteRateLimits :
          /\ gwRegistered = <<>>
          /\ RegisterRoute(RouteConfig(<<"a">>, "svc_a", rate_limit, {"GET"}))
    \/ \E path \in {<<"a", "b">>, <<"c">>}, method \in Methods, client_id \in Clients :
          /\ gwRegistered # <<>>
          /\ Len(gwHandled) < MaxRequests
          /\ HandleRequest(path, method, client_id)
    \/ Tick

SpecUnrouted == InitUnrouted /\ [][NextUnrouted]_vars

\* the request handled in this step, when it was answered 404 or 405, left
\* the rate limiter and the counters as they were
UnroutedFrame ==
    (/\ Len(gwHandled') > Len(gwHandled)
     /\ gwHandled'[Len(gwHandled')].status \in {404, 405})
       => /\ gateway'.rate_limiter = gateway.rate_limiter
          /\ tokenBuckets' = tokenBuckets
          /\ gwChecks' = gwChecks
          /\ gateway'.metrics.rate_limited = gateway.metrics.rate_limited
          /\ gateway'.metrics.requests_by_route = gateway.metrics.requests_by_route
          /\ gateway'.metrics.total_requests = gateway.metrics.total_requests + 1

\* the requests answered 404 or 405 carry no header and made no check
UnroutedAnswers ==
    \A r \in DOMAIN gwHandled :
       gwHandled[r].status \in {404, 405} =>
          /\ gwHandled[r].headers = <<>>
          /\ gwHandled[r].check = 0

\* C39: a request answered 404 or 405 never reaches the rate limiter.  It
\* creates no bucket and consumes no token: the bucket map and every bucket,
\* tokens and last_update included, are unchanged; rate_limited and every
\* per-route counter are unchanged; the headers returned are empty.
C39_UnroutedFrame == []UnroutedAnswers /\ [][UnroutedFrame]_vars

\* client_1 was answered 200; later, when its bucket was due a refill, it
\* was answered 405 and client_2 404: one bucket, untouched since the 200
C39_Witness ==
    /\ Len(gwHandled) = 3
    /\ gwHandled[1].client_id = "client_1" /\ gwHandled[1].status = 200
    /\ gwHandled[2].client_id = "client_1" /\ gwHandled[2].status = 405
    /\ gwHandled[3].client_id = "client_2" /\ gwHandled[3].status = 404
    /\ gwHandled[2].at > gwHandled[1].at
    /\ Len(tokenBuckets) = 1
    /\ tokenBuckets[1].last_update = gwHandled[1].at
    /\ tokenBuckets[1].tokens < tokenBuckets[1].capacity
    /\ tokenBuckets[1].refill_rate > 0
    /\ DOMAIN gateway.rate_limiter.buckets = {"client_1"}
    /\ gateway.metrics.requests_by_route[<<"a">>] = 1

\* handle_request calls made in the authorization scenario
MaxAuthRequests == 2

\* the headers argument of handle_request: None, or a dict without or with
\* an Authorization entry
HeaderArgs ==
    {<<>>, "Accept" :> "application/json", "Authorization" :> "Bearer token"}

\* the body argument of handle_request: None or a payload
BodyArgs == {<<>>, <<"payload">>}

\* RouteConfig(..., require_auth=flag, ...)
RouteConfigAuth(path_prefix, service_name, rate_limit, require_auth, allowed_methods) ==
    [RouteConfig(path_prefix, service_name, rate_limit, allowed_methods)
        EXCEPT !.require_auth = require_auth]

\* the "body" of a response: the error code, the message as the strings it
\* is built from, retry_after, and routed_to and original_path of a success
Body(code, message, retry_after, routed_to, original_path) ==
    [code |-> code, message |-> message, retry_after |-> retry_after,
     routed_to |-> routed_to, original_path |-> original_path]

\* a handle_request that turns down a request without an Authorization
\* header on a route that requires authentication
Respond_Authorizes(g, heap, path, method, client_id, headers, body, t) ==
    LET k == MatchRoute(g.routes, path)
        route == g.routes[k]
        rate_config == OrElse(route.rate_limit, DefaultRateLimitConfig)
        c == CheckOf(g.rate_limiter, heap, client_id, <<rate_config>>, t)
        logged(status, service) ==
            Log(g.request_log, LogEntry(path, method, client_id, status, service, t))
    IN  IF k = 0
          THEN [status |-> 404, headers |-> <<>>,
                body |-> Body("NOT_FOUND", <<"No route for ">> \o path, 0, "", <<>>),
                route |-> 0, check |-> <<>>,
                gateway |-> [Counted(g, 404, <<>>) EXCEPT !.request_log = logged(404, "")],
                heap |-> heap]
        ELSE IF method \notin route.allowed_methods
          THEN [status |-> 405, headers |-> <<>>,
                body |-> Body("METHOD_NOT_ALLOWED", <<method, " not allowed">>, 0, "", <<>>),
                route |-> k, check |-> <<>>,
                gateway |-> [Counted(g, 405, route.path_prefix)
                                EXCEPT !.request_log = logged(405, "")],
                heap |-> heap]
        ELSE IF route.require_auth /\ "Authorization" \notin DOMAIN headers
          THEN [status |-> 401, headers |-> <<>>,
                body |-> Body("UNAUTHORIZED", <<"Authentication required">>, 0, "", <<>>),
                route |-> k, check |-> <<>>,
                gateway |-> [Counted(g, 401, route.path_prefix)
                                EXCEPT !.request_log = logged(401, "")],
                heap |-> heap]
        ELSE IF ~c.allowed
          THEN [status |-> 429, headers |-> c.headers @@ ("Retry-After" :> "60"),
                body |-> Body("RATE_LIMIT_EXCEEDED", <<"Too many requests">>, 60, "", <<>>),
                route |-> k, check |-> <<c>>,
                gateway |-> [Counted(g, 429, route.path_prefix)
                                EXCEPT !.rate_limiter = c.rate_limiter,
                                       !.request_log = logged(429, "")],
                heap |-> c.heap]
        ELSE [status |-> 200,
              headers |-> c.headers @@ ("X-Service" :> route.service_name)
                                    @@ ("X-Gateway-Latency" :> 0),
              body |-> Body("", <<>>, 0, route.service_name, path),
              route |-> k, check |-> <<c>>,
              gateway |-> [Counted(g, 200, route.path_prefix)
                              EXCEPT !.rate_limiter = c.rate_limiter,
                                     !.request_log = logged(200, route.service_name)],
              heap |-> c.heap]

\* handle_request(path, method, client_id, headers, body) on gateway g with
\* the heap of buckets at time t: the dict returned, and the gateway and the
\* heap afterwards; check is <<>> or the check made
Respond(g, heap, path, method, client_id, headers, body, t) ==
    LET k == MatchRoute(g.routes, path)
        route == g.routes[k]
        rate_config == OrElse(route.rate_limit, DefaultRateLimitConfig)
        c == CheckOf(g.rate_limiter, heap, client_id, <<rate_config>>, t)
        logged(status, service) ==
            Log(g.request_log, LogEntry(path, method, client_id, status, service, t))
    IN  IF k = 0
          THEN [status |-> 404, headers |-> <<>>,
                body |-> Body("NOT_FOUND", <<"No route for ">> \o path, 0, "", <<>>),
                route |-> 0, check |-> <<>>,
                gateway |-> [Counted(g, 404, <<>>) EXCEPT !.request_log = logged(404, "")],
                heap |-> heap]
        ELSE IF method \notin route.allowed_methods
          THEN [status |-> 405, headers |-> <<>>,
                body |-> Body("METHOD_NOT_ALLOWED", <<method, " not allowed">>, 0, "", <<>>),
                route |-> k, check |-> <<>>,
                gateway |-> [Counted(g, 405, route.path_prefix)
                                EXCEPT !.request_log = logged(405, "")],
                heap |-> heap]
        ELSE IF ~c.allowed
          THEN [status |-> 429, headers |-> c.headers @@ ("Retry-After" :> "60"),
                body |-> Body("RATE_LIMIT_EXCEEDED", <<"Too many requests">>, 60, "", <<>>),
                route |-> k, check |-> <<c>>,
                gateway |-> [Counted(g, 429, route.path_prefix)
                                EXCEPT !.rate_limiter = c.rate_limiter,
                                       !.request_log = logged(429, "")],
                heap |-> c.heap]
        ELSE [status |-> 200,
              headers |-> c.headers @@ ("X-Service" :> route.service_name)
                                    @@ ("X-Gateway-Latency" :> 0),
              body |-> Body("", <<>>, 0, route.service_name, path),
              route |-> k, check |-> <<c>>,
              gateway |-> [Counted(g, 200, route.path_prefix)
                              EXCEPT !.rate_limiter = c.rate_limiter,
                                     !.request_log = logged(200, route.service_name)],
              heap |-> c.heap]

\* await gateway.handle_request(path, method, client_id, headers, body); the
\* entry of gwHandled also keeps the dict returned and the two arguments
HandleRequestWith(path, method, client_id, headers, body) ==
    LET r == Respond(gateway, tokenBuckets, path, method, client_id, headers, body, now)
    IN  /\ gateway' = r.gateway
        /\ tokenBuckets' = r.heap
        /\ IF r.check = <<>>
             THEN UNCHANGED <<gwLast, gwChecks>>
             ELSE /\ gwLast' = ConsumeRecord(r.check[1], now)
                  /\ gwChecks' = Append(gwChecks, CheckRecord(r.check[1], client_id, now))
        /\ gwHandled' = Append(gwHandled,
              [path |-> path, method |-> method, client_id |-> client_id, at |-> now,
               status |-> r.status, headers |-> r.headers, body |-> r.body,
               route |-> r.route,
               check |-> IF r.check = <<>> THEN 0 ELSE Len(gwChecks) + 1,
               args |-> [headers |-> headers, body |-> body]])
        /\ UNCHANGED <<gwRegistered, cbVars, sagaVars>>

\* a gateway just built, the clock at its first value
InitAuth ==
    /\ NoCircuitBreaker
    /\ NoSaga
    /\ NoGateway

\* one route is registered, with or without require_auth; then requests are
\* handled, with and without an Authorization header and a body
NextAuth ==
    \/ \E rate_limit \in RouteRateLimits, require_auth \in BOOLEAN,
          allowed_methods \in AllowedMethodSets :
          /\ gwRegistered = <<>>
          /\ RegisterRoute(RouteConfigAuth(<<"a">>, "svc_a", rate_limit, require_auth,
                                           allowed_methods))
    \/ \E path \in {<<"a", "b">>, <<"c">>}, method \in Methods, client_id \in Clients,
          headers \in HeaderArgs, body \in BodyArgs :
          /\ gwRegistered # <<>>
          /\ Len(gwHandled) < MaxAuthRequests
          /\ HandleRequestWith(path, method, client_id, headers, body)

SpecAuth == InitAuth /\ [][NextAuth]_vars

\* gateway g with the require_auth of its k-th route set to flag
WithAuth(g, k, flag) ==
    IF k = 0 THEN g ELSE [g EXCEPT !.routes[k].require_auth = flag]

\* the request handled in this step gets the same answer and leaves the same
\* gateway whatever its headers, its body and the require_auth of its route
SameWhateverAuth ==
    Len(gwHandled') > Len(gwHandled) =>
       LET h == gwHandled'[Len(gwHandled')]
           k == MatchRoute(gateway.routes, h.path)
       IN  \A headers \in HeaderArgs, body \in BodyArgs, flag \in BOOLEAN :
              LET r == Respond(WithAuth(gateway, k, flag), tokenBuckets,
                               h.path, h.method, h.client_id, headers, body, now)
              IN  /\ r.status = h.status
                  /\ r.body = h.body
                  /\ r.headers = h.headers
                  /\ r.gateway = WithAuth(gateway', k, flag)
                  /\ r.heap = tokenBuckets'

\* no request is turned down for want of authorization
NeverUnauthorized ==
    \A r \in DOMAIN gwHandled : gwHandled[r].status \in {200, 404, 405, 429}

\* C40: the status and the body handle_request returns depend only on the
\* path, the method, the client_id, the route table and the state of the
\* rate limiter.  Two gateways in the same state given requests that differ
\* only in the headers argument, in the body argument or in the require_auth
\* of the matched route return the same status, body and headers and reach
\* the same state: no authorization check is made.
C40_NoAuthorization == []NeverUnauthorized /\ [][SameWhateverAuth]_vars

\* a request with headers None on a route with require_auth = True was
\* answered 200, and one with an Authorization header 429 after it
C40_Witness ==
    /\ Len(gwHandled) = 2
    /\ gateway.routes[1].require_auth
    /\ gwHandled[1].args.headers = <<>>
    /\ gwHandled[1].status = 200
    /\ gwHandled[1].body.routed_to = "svc_a"
    /\ gwHandled[2].client_id = gwHandled[1].client_id
    /\ "Authorization" \in DOMAIN gwHandled[2].args.headers
    /\ gwHandled[2].args.body = <<"payload">>
    /\ gwHandled[2].status = 429

====
